---- MODULE Spec2Model ----
(***************************************************************************)
(* Model of the wallet user service: the identity service (Register,      *)
(* Login), the transaction manager, the notification event log (outbox)   *)
(* and the notification worker that drains it into the task queue.        *)
(***************************************************************************)
EXTENDS Integers, Sequences, FiniteSets, TLC

\* ---------------------------------------------------------------- bounds
\* number of service calls (Register/Login) explored
MaxCalls == 3
\* the per-row count of enqueued tasks saturates at this value
MaxEnq == 2
\* the count of transactions left open saturates at this value
MaxOpenTx == 2
\* number of TransactionManager calls explored by TxSpec
MaxTxCalls == 2
\* number of Login calls explored by LiveSpec
MaxLiveCalls == 2
\* worker.notification.batch_size as configured in the explored runs
batchSize == 2
\* number of rows the event log holds when WorkerSpec starts
MaxRows == 3
\* the counts of drain passes and of WaitGroup calls saturate here
MaxCount == 2
\* number of rows the event log holds when ShutdownSpec and MainSpec start
MaxLiveRows == 2
\* last reading of the wall clock explored by TokenSpec
MaxClock == 4
\* number of service calls explored by AuthSpec
MaxAuthCalls == 2

\* ------------------------------------------------------- program constants
\* jwt.refresh_token_duration, in days
RefreshTokenDuration == 7

None == "none"
NoToken == 0
NilUUID == 0

\* well-formed e-mail addresses of the explored requests
Emails == {"a@b.co", "c@d.co"}
\* e-mail values a request can carry: well-formed, empty/nil, malformed
ReqEmails == Emails \cup {"", "not-an-email"}
\* "Str0ng!pw" meets the complexity rules, "weak" does not
Passwords == {"Str0ng!pw", "weak"}

LoginEventType == "login"
OrderCreatedEventType == "order_created"
NotificationEventLogStatusPending == "pending"
NotificationEventLogStatusSuccess == "success"
NotificationEventLogStatusFailed == "failed"

VARIABLES
    users,          \* committed rows of table users
    refreshTokens,  \* committed rows of table refresh_tokens
    outbox,         \* rows of notification_event_logs, in created_at order
    enqueued,       \* enqueued[i]: tasks in the queue made from row i
    processed,      \* indices of rows for which processEvent returned nil
    nCalls,         \* number of service calls made so far
    lastResp,       \* response of the latest service call
    userRepoImpl,   \* UserRepository implementation handed to the service
    now,            \* wall clock, epoch milliseconds (scaled)
    wpc,            \* position of the worker goroutine
    phase,          \* "poll": batch under the caller's ctx, "drain": drain pass
    batch,          \* rows of the fetched batch not yet handled
    appCancelled,   \* the application context is cancelled
    shutdownClosed, \* shutdownChan is closed
    drainExpired,   \* the drain pass's timeout context has expired
    lastTx,         \* outcome of the latest TransactionManager call
    openTx,         \* transactions begun and neither committed nor rolled back
    tickerC,        \* a tick is waiting in ticker.C (channel of capacity one)
    shutdownOnce,   \* shutdownOnce has run its function
    stopCalls,      \* calls of Stop made on this worker: never, once, repeated
    stopPanicked,   \* a call of Stop closed the closed channel (panic)
    wgAdds,         \* calls of wg.Add(1) made by this process
    wgDones,        \* calls of wg.Done() made by this process
    polled,         \* the goroutine has begun a poll
    drains,         \* drain passes (processRemainingEvents) begun
    drainFetch,     \* outcome of the drain pass's FindPendingEvents
    drainPending,   \* login rows that were pending when the drain pass began
    attempted,      \* rows handed to processEvent in the drain pass
    mainPc,         \* position of main
    waiterPc,       \* position of the goroutine that closes shutdownDone
    shutdownCtxDone,\* the shutdown deadline has expired
    serverStopped,  \* grpcServer.Serve has returned
    jwt,            \* the token the codec was last asked to make, or a forged one
    verified,       \* outcome of the latest VerifyAccessToken/VerifyRefreshToken
    rtRecord,       \* the refresh-token record in hand
    rtCall,         \* the latest call made on a refresh-token record
    peerPc,         \* position of the goroutine of a second worker instance
    peerBatch       \* rows of that instance's batch not yet handled

dbVars == <<users, refreshTokens>>
svcVars == <<nCalls, lastResp>>
queueVars == <<outbox, enqueued, processed>>
txVars == <<lastTx, openTx>>
stopVars == <<shutdownOnce, stopCalls, stopPanicked>>
wgVars == <<wgAdds, wgDones>>
drainVars == <<drains, drainFetch, drainPending, attempted>>
mainVars == <<mainPc, waiterPc, shutdownCtxDone, serverStopped>>
codecVars == <<jwt, verified, rtRecord, rtCall>>
peerVars == <<peerPc, peerBatch>>
envVars == <<userRepoImpl, now, codecVars, peerVars>>
goVars == <<tickerC, stopVars, wgVars, polled, drainVars, mainVars>>
workerVars == <<wpc, phase, batch, appCancelled, shutdownClosed, drainExpired,
               goVars>>
vars == <<users, refreshTokens, outbox, enqueued, processed, nCalls, lastResp,
          userRepoImpl, now, codecVars, peerVars, wpc, phase, batch, appCancelled, shutdownClosed,
          drainExpired, lastTx, openTx, goVars>>

\* ------------------------------------------------------------ helpers
Min(a, b) == IF a < b THEN a ELSE b

NoWrites == [users |-> {}, refreshTokens |-> {}]

Apply(db, w) ==
    [users |-> db.users \cup w.users,
     refreshTokens |-> db.refreshTokens \cup w.refreshTokens]

NoTx == [variant |-> None, fnErr |-> None, fnPanic |-> FALSE, fnTx |-> {},
         beginFail |-> FALSE, rbFail |-> FALSE, commitFail |-> FALSE,
         err |-> None, panic |-> FALSE, end |-> None]

NoResp == [op |-> None, err |-> None, user |-> NilUUID,
           access |-> NoToken, refresh |-> NoToken]

\* SQL error text of a failed statement
BeginErr == "begin failed"
CommitErr == "commit failed"

\* --------------------------------------------------- transaction manager
\* sql.TxOptions of the variants
ReadCommitted == [isolation |-> "LevelReadCommitted", readOnly |-> FALSE]

\* The callback fn is given by what its run does: the error or panic it ends
\* with, the rows it wrote through the transaction handle (tx) and the rows it
\* wrote through the main connection (direct, applied at once).
FnResult(err, panic, tx, direct) ==
    [err |-> err, panic |-> panic, tx |-> tx, direct |-> direct]

TxOutcome(db, err, panic, end, opts) ==
    [db |-> db, err |-> err, panic |-> panic, end |-> end, opts |-> opts]

\* faulty variant: a failed rollback replaces fn's error
WithTransactionOptions_rbmask(db, fn, opts, beginFail, rbFail, commitFail) ==
    IF beginFail THEN TxOutcome(db, BeginErr, FALSE, "notbegun", opts)
    ELSE IF fn.panic THEN TxOutcome(Apply(db, fn.direct), None, TRUE, "open", opts)
    ELSE IF fn.err # None THEN
        IF rbFail
        THEN TxOutcome(Apply(db, fn.direct), "rollback failed", FALSE, "rollbackfailed", opts)
        ELSE TxOutcome(Apply(db, fn.direct), fn.err, FALSE, "rolledback", opts)
    ELSE IF commitFail
        THEN TxOutcome(Apply(db, fn.direct), CommitErr, FALSE, "commitfailed", opts)
        ELSE TxOutcome(Apply(Apply(db, fn.direct), fn.tx), None, FALSE, "committed", opts)

\* TransactionManager.WithTransactionOptions: begin, run fn, roll back on an
\* error of fn and return that error, commit otherwise.  There is no recover:
\* a panic of fn unwinds past the open transaction.
WithTransactionOptions(db, fn, opts, beginFail, rbFail, commitFail) ==
    IF beginFail THEN TxOutcome(db, BeginErr, FALSE, "notbegun", opts)
    ELSE IF fn.panic THEN TxOutcome(Apply(db, fn.direct), None, TRUE, "open", opts)
    ELSE IF fn.err # None THEN
        TxOutcome(Apply(db, fn.direct), fn.err, FALSE,
                  IF rbFail THEN "rollbackfailed" ELSE "rolledback", opts)
    ELSE IF commitFail
        THEN TxOutcome(Apply(db, fn.direct), CommitErr, FALSE, "commitfailed", opts)
        ELSE TxOutcome(Apply(Apply(db, fn.direct), fn.tx), None, FALSE, "committed", opts)

\* TransactionManager.WithTransaction (read committed, read-write)
WithTransaction(db, fn, beginFail, rbFail, commitFail) ==
    WithTransactionOptions(db, fn, ReadCommitted, beginFail, rbFail, commitFail)

WithTransactionIsolation(db, fn, isolation, beginFail, rbFail, commitFail) ==
    WithTransactionOptions(db, fn, [isolation |-> isolation, readOnly |-> FALSE],
                           beginFail, rbFail, commitFail)

WithReadOnlyTransaction(db, fn, beginFail, rbFail, commitFail) ==
    WithTransactionOptions(db, fn, [isolation |-> "LevelReadCommitted", readOnly |-> TRUE],
                           beginFail, rbFail, commitFail)

WithSerializableTransaction(db, fn, beginFail, rbFail, commitFail) ==
    WithTransactionIsolation(db, fn, "LevelSerializable", beginFail, rbFail, commitFail)

WithRepeatableReadTransaction(db, fn, beginFail, rbFail, commitFail) ==
    WithTransactionIsolation(db, fn, "LevelRepeatableRead", beginFail, rbFail, commitFail)

WithReadUncommittedTransaction(db, fn, beginFail, rbFail, commitFail) ==
    WithTransactionIsolation(db, fn, "LevelReadUncommitted", beginFail, rbFail, commitFail)

\* The other TransactionManager.WithTransaction of the repository
\* (pkg/utils/tx with a deferred recover): a panic of fn is rolled back and
\* re-raised.
WithTransactionRecovering(db, fn, beginFail, rbFail, commitFail) ==
    IF beginFail THEN TxOutcome(db, BeginErr, FALSE, "notbegun", ReadCommitted)
    ELSE IF fn.panic THEN
        TxOutcome(Apply(db, fn.direct), None, TRUE,
                  IF rbFail THEN "rollbackfailed" ELSE "rolledback", ReadCommitted)
    ELSE IF fn.err # None THEN
        TxOutcome(Apply(db, fn.direct), fn.err, FALSE,
                  IF rbFail THEN "rollbackfailed" ELSE "rolledback", ReadCommitted)
    ELSE IF commitFail
        THEN TxOutcome(Apply(db, fn.direct), CommitErr, FALSE, "commitfailed", ReadCommitted)
        ELSE TxOutcome(Apply(Apply(db, fn.direct), fn.tx), None, FALSE, "committed", ReadCommitted)

\* ------------------------------------------------------------ domain model
ErrEmailOrPhoneRequired == "either email or both country code and phone are required"
ErrEmailIsRequired == "email is required"
ErrInvalidPassword == "invalid password"
ErrInvalidEmail == "invalid email"
ErrInvalidToken == "invalid token"
ErrTokenExpired == "token expired"
ErrTokenRevoked == "token revoked"
ErrTokenNotFound == "token not found"
ErrTokenIsRequired == "token is required"
ErrGetRefreshToken == "failed to get refresh token by token"
ErrGetUserByID == "failed to get user by ID"
ErrUserNotFound == "user not found"
ErrInvalidCredentials == "invalid credentials"
ErrCreateTokenPair == "failed to create token pair"
ErrCreateUser == "failed to create user"
ErrCreateRefreshToken == "failed to create refresh token"
ErrGetUserByEmail == "failed to get user by email"
ErrCreateEventLog == "failed to create notification event log"

\* RegisterReq.Validate: an e-mail or a phone is required (requests of the
\* model carry no phone)
RegisterReq_Validate(email) ==
    IF email = "" THEN ErrEmailOrPhoneRequired ELSE None

\* NewPasswordHashFromPlain / PasswordHash.VerifyPassword
NewPasswordHashFromPlain(password) == <<"bcrypt", password>>
VerifyPassword(hash, password) == hash = <<"bcrypt", password>>

\* faulty variant: the format of the e-mail is not looked at
NewUserWithPassword_lax(email, password, id) ==
    IF email = "" THEN [err |-> ErrEmailOrPhoneRequired, user |-> None]
    ELSE IF password # "Str0ng!pw" THEN [err |-> ErrInvalidPassword, user |-> None]
    ELSE [err |-> None,
          user |-> [id |-> id, email |-> email,
                    passwordHash |-> NewPasswordHashFromPlain(password)]]

\* NewUserWithPassword: contact present, password rules, e-mail format, new id
NewUserWithPassword(email, password, id) ==
    IF email = "" THEN [err |-> ErrEmailOrPhoneRequired, user |-> None]
    ELSE IF password # "Str0ng!pw" THEN [err |-> ErrInvalidPassword, user |-> None]
    ELSE IF email \notin Emails THEN [err |-> ErrInvalidEmail, user |-> None]
    ELSE [err |-> None,
          user |-> [id |-> id, email |-> email,
                    passwordHash |-> NewPasswordHashFromPlain(password)]]

\* the zero value of RefreshToken
NoRecord ==
    [id |-> NilUUID, userID |-> NilUUID, token |-> NoToken, expiresAt |-> 0,
     isRevoked |-> FALSE, createdAt |-> 0, updatedAt |-> 0]

\* faulty variant: the expiry is not looked at
NewRefreshToken_noexpiry(userID, tokenHash, expiresAt, id, clock) ==
    IF userID = NilUUID THEN [err |-> ErrInvalidToken, rt |-> None]
    ELSE IF tokenHash = NoToken THEN [err |-> ErrInvalidToken, rt |-> None]
    ELSE [err |-> None,
          rt |-> [id |-> id, userID |-> userID, token |-> tokenHash,
                  expiresAt |-> expiresAt, isRevoked |-> FALSE,
                  createdAt |-> clock[2], updatedAt |-> clock[3]]]

\* NewRefreshToken: user id and token present, expiry in the future; clock
\* holds the three readings of time.Now().UnixMilli(), for the expiry check,
\* for CreatedAt and for UpdatedAt
NewRefreshToken(userID, tokenHash, expiresAt, id, clock) ==
    IF userID = NilUUID THEN [err |-> ErrInvalidToken, rt |-> None]
    ELSE IF tokenHash = NoToken THEN [err |-> ErrInvalidToken, rt |-> None]
    ELSE IF expiresAt <= clock[1] THEN [err |-> ErrTokenExpired, rt |-> None]
    ELSE [err |-> None,
          rt |-> [id |-> id, userID |-> userID, token |-> tokenHash,
                  expiresAt |-> expiresAt, isRevoked |-> FALSE,
                  createdAt |-> clock[2], updatedAt |-> clock[3]]]

\* faulty variant: expiry is tested before revocation
IsValid_expiryfirst(r, t) ==
    IF r.id = NilUUID THEN ErrInvalidToken
    ELSE IF r.userID = NilUUID THEN ErrInvalidToken
    ELSE IF r.token = NoToken THEN ErrInvalidToken
    ELSE IF r.expiresAt <= t THEN ErrTokenExpired
    ELSE IF r.isRevoked THEN ErrTokenRevoked
    ELSE None

\* RefreshToken.IsValid of the domain model, at clock reading t (epoch
\* milliseconds)
IsValid(r, t) ==
    IF r.id = NilUUID THEN ErrInvalidToken
    ELSE IF r.userID = NilUUID THEN ErrInvalidToken
    ELSE IF r.token = NoToken THEN ErrInvalidToken
    ELSE IF r.isRevoked THEN ErrTokenRevoked
    ELSE IF r.expiresAt <= t THEN ErrTokenExpired
    ELSE None

\* RefreshToken.IsValid of package token, at clock reading t (epoch seconds)
token_IsValid(r, t) ==
    IF r.userID = NilUUID THEN ErrUserNotFound
    ELSE IF r.token = NoToken THEN ErrInvalidToken
    ELSE IF r.isRevoked THEN ErrTokenRevoked
    ELSE IF t > r.expiresAt THEN ErrTokenExpired
    ELSE None

\* RefreshToken.Revoke of package token
Revoke(r, t) == [r EXCEPT !.isRevoked = TRUE, !.updatedAt = t]

\* ------------------------------------------------------------ repositories
\* Where an INSERT goes: "tx" (the transaction found in the context) or
\* "direct" (the main connection, applied at once).

\* UserRepository.Create of package repository: the transaction of the
\* context when there is one
UserRepository_Create(hasTx) == IF hasTx THEN "tx" ELSE "direct"

\* UserRepository.Create of package db: always r.db
UserRepository_Create_db(hasTx) == "direct"

\* RefreshTokenRepository.Create: the transaction of the context when there
\* is one
RefreshTokenRepository_Create(hasTx) == IF hasTx THEN "tx" ELSE "direct"

UserRepoImpls == {"repository", "db"}

UserCreateTarget(impl, hasTx) ==
    IF impl = "repository" THEN UserRepository_Create(hasTx)
    ELSE UserRepository_Create_db(hasTx)

Into(target, where, w) == IF target = where THEN w ELSE NoWrites

\* UserRepository.GetByEmail
GetByEmail(rows, email, fail) ==
    IF fail THEN [err |-> ErrGetUserByEmail, user |-> None]
    ELSE IF \E u \in rows : u.email = email
         THEN [err |-> None, user |-> CHOOSE u \in rows : u.email = email]
         ELSE [err |-> ErrUserNotFound, user |-> None]

\* -------------------------------------------------------- identity service
\* the callback Register hands to WithTransaction
RegisterFn(db, impl, user, refreshToken, t, userFail, rtFail) ==
    LET ut == UserCreateTarget(impl, TRUE)
        rtt == RefreshTokenRepository_Create(TRUE)
        userW == [users |-> {user}, refreshTokens |-> {}]
        dup == \E x \in db.users : x.email = user.email
        nrt == NewRefreshToken(user.id, refreshToken, t + RefreshTokenDuration,
                               refreshToken, <<t, t, t>>)
    IN  IF userFail \/ dup
        THEN FnResult(ErrCreateUser, FALSE, NoWrites, NoWrites)
        ELSE IF nrt.err # None
        THEN FnResult(nrt.err, FALSE, Into(ut, "tx", userW), Into(ut, "direct", userW))
        ELSE IF rtFail
        THEN FnResult(ErrCreateRefreshToken, FALSE,
                      Into(ut, "tx", userW), Into(ut, "direct", userW))
        ELSE LET rtW == [users |-> {}, refreshTokens |-> {nrt.rt}]
             IN  FnResult(None, FALSE,
                          Apply(Into(ut, "tx", userW), Into(rtt, "tx", rtW)),
                          Apply(Into(ut, "direct", userW), Into(rtt, "direct", rtW)))

\* faulty variant: the record is made and not inserted
StoreRefreshTokenFn_nostore(user, refreshToken, t, rtFail) ==
    LET nrt == NewRefreshToken(user.id, refreshToken, t + RefreshTokenDuration,
                               refreshToken, <<t, t, t>>)
    IN  IF nrt.err # None THEN FnResult(nrt.err, FALSE, NoWrites, NoWrites)
        ELSE IF rtFail THEN FnResult(ErrCreateRefreshToken, FALSE, NoWrites, NoWrites)
        ELSE FnResult(None, FALSE, NoWrites, NoWrites)

\* the callback storeRefreshToken hands to WithTransaction
StoreRefreshTokenFn(user, refreshToken, t, rtFail) ==
    LET rtt == RefreshTokenRepository_Create(TRUE)
        nrt == NewRefreshToken(user.id, refreshToken, t + RefreshTokenDuration,
                               refreshToken, <<t, t, t>>)
    IN  IF nrt.err # None THEN FnResult(nrt.err, FALSE, NoWrites, NoWrites)
        ELSE IF rtFail THEN FnResult(ErrCreateRefreshToken, FALSE, NoWrites, NoWrites)
        ELSE LET rtW == [users |-> {}, refreshTokens |-> {nrt.rt}]
             IN  FnResult(None, FALSE, Into(rtt, "tx", rtW), Into(rtt, "direct", rtW))

Resp(op, err, user, access, refresh) ==
    [op |-> op, err |-> err, user |-> user, access |-> access, refresh |-> refresh]

Fail(op, err) == Resp(op, err, NilUUID, NoToken, NoToken)

\* UserService.Register
Register(email, password, tokenFail, userFail, rtFail, beginFail, rbFail, commitFail) ==
    /\ nCalls < MaxCalls
    /\ nCalls' = nCalls + 1
    /\ UNCHANGED <<queueVars, workerVars, txVars, envVars>>
    /\ LET k == nCalls + 1
           db == [users |-> users, refreshTokens |-> refreshTokens]
           nu == NewUserWithPassword(email, password, k)
       IN  IF RegisterReq_Validate(email) # None
           THEN /\ lastResp' = Fail("Register", RegisterReq_Validate(email))
                /\ UNCHANGED dbVars
           ELSE IF nu.err # None
           THEN /\ lastResp' = Fail("Register", nu.err)
                /\ UNCHANGED dbVars
           ELSE IF tokenFail
           THEN /\ lastResp' = Fail("Register", ErrCreateTokenPair)
                /\ UNCHANGED dbVars
           ELSE LET fn == RegisterFn(db, userRepoImpl, nu.user, k, now, userFail, rtFail)
                    out == WithTransaction(db, fn, beginFail, rbFail, commitFail)
                IN  /\ users' = out.db.users
                    /\ refreshTokens' = out.db.refreshTokens
                    /\ lastResp' = IF out.err # None
                                   THEN Fail("Register", out.err)
                                   ELSE Resp("Register", None, k, k, k)

\* json.Marshal of dto.SendLoginNotificationParams: the bytes of a JSON object
\* with the fields of the parameters
Marshal(params) == [json |-> "object"] @@ params

\* bytes that are not the JSON of an object with fields of these types
MalformedPayload == [json |-> "malformed"]

\* json.Unmarshal into dto.SendLoginNotificationParams: an error on bytes
\* that do not decode, else the fields
Unmarshal(raw) ==
    IF raw.json = "object"
    THEN [err |-> None,
          params |-> [userID |-> raw.userID, email |-> raw.email,
                      loginAt |-> raw.loginAt]]
    ELSE [err |-> "unmarshal error",
          params |-> [userID |-> NilUUID, email |-> "", loginAt |-> 0]]

\* faulty variant: the payload is built without the user id
LoginEventRow_nouser(id, user, t) ==
    [id |-> id, eventName |-> LoginEventType,
     payload |-> Marshal([userID |-> NilUUID, email |-> user.email, loginAt |-> t]),
     status |-> NotificationEventLogStatusPending, createdAt |-> t]

\* the row createLoginNotification inserts; created_at is the column's
\* default, the time of the insert
LoginEventRow(id, user, t) ==
    [id |-> id, eventName |-> LoginEventType,
     payload |-> Marshal([userID |-> user.id, email |-> user.email, loginAt |-> t]),
     status |-> NotificationEventLogStatusPending, createdAt |-> t]

\* faulty variant: a failed insert of the event row is not reported
createLoginNotification_swallow(rows, id, user, t, fail) ==
    IF fail THEN [err |-> None, rows |-> rows]
    ELSE [err |-> None, rows |-> Append(rows, LoginEventRow(id, user, t))]

\* UserService.createLoginNotification: insert the pending login row through
\* the main connection
createLoginNotification(rows, id, user, t, fail) ==
    IF fail THEN [err |-> ErrCreateEventLog, rows |-> rows]
    ELSE [err |-> None, rows |-> Append(rows, LoginEventRow(id, user, t))]

\* UserService.Login: authenticateUser, createTokenPair, storeRefreshToken
\* (one transaction), then createLoginNotification
Login(email, password, getFail, tokenFail, rtFail, beginFail, rbFail, commitFail, outboxFail) ==
    /\ nCalls < MaxCalls
    /\ nCalls' = nCalls + 1
    /\ UNCHANGED <<users, processed, workerVars, txVars, envVars>>
    /\ LET k == nCalls + 1
           db == [users |-> users, refreshTokens |-> refreshTokens]
           got == GetByEmail(users, email, getFail)
       IN  IF email = ""
           THEN /\ lastResp' = Fail("Login", ErrEmailIsRequired)
                /\ UNCHANGED <<refreshTokens, outbox, enqueued>>
           ELSE IF got.err # None
           THEN /\ lastResp' = Fail("Login", got.err)
                /\ UNCHANGED <<refreshTokens, outbox, enqueued>>
           ELSE IF ~VerifyPassword(got.user.passwordHash, password)
           THEN /\ lastResp' = Fail("Login", ErrInvalidCredentials)
                /\ UNCHANGED <<refreshTokens, outbox, enqueued>>
           ELSE IF tokenFail
           THEN /\ lastResp' = Fail("Login", ErrCreateTokenPair)
                /\ UNCHANGED <<refreshTokens, outbox, enqueued>>
           ELSE LET fn == StoreRefreshTokenFn(got.user, k, now, rtFail)
                    out == WithTransaction(db, fn, beginFail, rbFail, commitFail)
                    note == createLoginNotification(outbox, k, got.user, now, outboxFail)
                IN  /\ refreshTokens' = out.db.refreshTokens
                    /\ IF out.err # None
                       THEN /\ lastResp' = Fail("Login", out.err)
                            /\ UNCHANGED <<outbox, enqueued>>
                       ELSE /\ outbox' = note.rows
                            /\ enqueued' = IF Len(note.rows) > Len(outbox)
                                           THEN Append(enqueued, 0) ELSE enqueued
                            /\ lastResp' = IF note.err # None
                                           THEN Fail("Login", note.err)
                                           ELSE Resp("Login", None, got.user.id, k, k)

\* ------------------------------------------------------ notification worker
\* ORDER BY created_at ASC: rows of equal created_at, whose order the query
\* leaves open, come in the order of their insertion
OrderByCreatedAt(rows, sel) ==
    SortSeq(sel, LAMBDA a, b : \/ rows[a].createdAt < rows[b].createdAt
                               \/ /\ rows[a].createdAt = rows[b].createdAt
                                  /\ a < b)

\* faulty variant: the status filter of the query is missing
FindPendingEvents_anystatus(rows, eventName, n) ==
    LET idx == [i \in 1..Len(rows) |-> i]
        match(i) == rows[i].eventName = eventName
        sel == OrderByCreatedAt(rows, SelectSeq(idx, match))
    IN  SubSeq(sel, 1, Min(n, Len(sel)))

\* faulty variant: the ORDER BY clause is missing
FindPendingEvents_unordered(rows, eventName, n) ==
    LET idx == [i \in 1..Len(rows) |-> i]
        match(i) == /\ rows[i].eventName = eventName
                    /\ rows[i].status = NotificationEventLogStatusPending
        sel == SelectSeq(idx, match)
    IN  SubSeq(sel, 1, Min(n, Len(sel)))

\* faulty variant: the newest rows are fetched first
FindPendingEvents_newestfirst(rows, eventName, n) ==
    LET idx == [i \in 1..Len(rows) |-> i]
        match(i) == /\ rows[i].eventName = eventName
                    /\ rows[i].status = NotificationEventLogStatusPending
        sel == SortSeq(SelectSeq(idx, match),
                       LAMBDA a, b : rows[a].createdAt > rows[b].createdAt)
    IN  SubSeq(sel, 1, Min(n, Len(sel)))

\* NotificationEventLogRepository.FindPendingEvents: the ids (positions) of
\* the first n rows with the event name and status pending, oldest first
FindPendingEvents(rows, eventName, n) ==
    LET idx == [i \in 1..Len(rows) |-> i]
        match(i) == /\ rows[i].eventName = eventName
                    /\ rows[i].status = NotificationEventLogStatusPending
        sel == OrderByCreatedAt(rows, SelectSeq(idx, match))
    IN  SubSeq(sel, 1, Min(n, Len(sel)))

\* faulty variant: the wrong status constant is written
UpdateStatusSuccess_failed(rows, i) ==
    [rows EXCEPT ![i].status = NotificationEventLogStatusFailed]

\* NotificationEventLogRepository.UpdateStatusSuccess:
\* UPDATE ... SET status = 'success' WHERE id = $2
UpdateStatusSuccess(rows, i) ==
    [rows EXCEPT ![i].status = NotificationEventLogStatusSuccess]

\* NotificationEventLogRepository.UpdateStatusFailed:
\* UPDATE ... SET status = 'failed' WHERE id = $2
UpdateStatusFailed(rows, i) ==
    [rows EXCEPT ![i].status = NotificationEventLogStatusFailed]

\* faulty variant: the drain pass runs under the caller's context
BatchCtxDone_caller(ph, cancelled, expired) == cancelled

\* ctx.Done() of the context handed to processPendingLoginEvents: the
\* caller's context in a poll, the fresh 10 s context in the drain pass
BatchCtxDone(ph, cancelled, expired) ==
    IF ph = "drain" THEN expired ELSE cancelled

\* the context the current batch runs under is done
CtxDone == BatchCtxDone(phase, appCancelled, drainExpired)

\* faulty variant: the loop does not look at the context
LoopEnds_nocheck(b, done) == b = <<>>

\* the loop of processPendingLoginEvents ends when the rows are used up or,
\* checked before each row, when the context is done
LoopEnds(b, done) == b = <<>> \/ done

\* faulty variant: the first error ends the batch
AfterError_abort(b) == <<>>

\* a processEvent error is logged and the loop goes on with the next row
AfterError(b) == Tail(b)

\* faulty variant: a row whose processing failed is marked failed
processEventError_markfailed(rows, i) ==
    [rows EXCEPT ![i].status = NotificationEventLogStatusFailed]

\* processEvent returns the error of Unmarshal, SendLoginNotification or
\* UpdateStatusSuccess without writing to the row
processEventError(rows, i) == rows

\* faulty variant: processPendingLoginEvents always returns to the select
Return_select(ph) == "select"

\* where processPendingLoginEvents returns to: the select of Start after a
\* poll, the return of the goroutine after processRemainingEvents
Return(ph) == IF ph = "drain" THEN "exited" ELSE "select"

\* faulty variant: the deferred function does not call wg.Done
Deferred_nodone(pc, dones) == dones

\* the deferred function of the goroutine, run when it returns: wg.Done()
Deferred(pc, dones) == IF pc = "exited" THEN Min(dones + 1, MaxCount) ELSE dones

\* faulty variant: Stop closes the channel on every call
OnceDo_always(done) == TRUE

\* sync.Once.Do runs its function unless an earlier call has run it
OnceDo(done) == ~done

\* faulty variant: the goroutine waits for the first tick
FirstStep_wait == "select"

\* the first statement of the goroutine is processPendingLoginEvents(ctx)
FirstStep == "startup"

\* the ticker delivers a tick into ticker.C unless one is waiting there. A
\* tick delivered while the goroutine is busy waits in the channel until the
\* goroutine is back at the select, so it is delivered there; the deferred
\* function of the goroutine stops the ticker.
Tick ==
    /\ wpc = "select"
    /\ ~tickerC
    /\ tickerC' = TRUE
    /\ UNCHANGED <<dbVars, queueVars, svcVars, txVars, envVars,
                   wpc, phase, batch, appCancelled, shutdownClosed, drainExpired,
                   stopVars, wgVars, polled, drainVars, mainVars>>

\* main launches the worker: Start calls wg.Add(1) and spawns the goroutine
Start ==
    /\ wpc = "notstarted"
    /\ wpc' = FirstStep
    /\ wgAdds' = Min(wgAdds + 1, MaxCount)
    /\ UNCHANGED <<dbVars, queueVars, svcVars, txVars, envVars,
                   phase, batch, appCancelled, shutdownClosed, drainExpired,
                   tickerC, stopVars, wgDones, polled, drainVars, mainVars>>

\* processPendingLoginEvents(ctx) up to the loop: at startup, or when the
\* select of Start takes the ticker case
WorkerPoll(findFail) ==
    /\ wpc = "startup" \/ (wpc = "select" /\ tickerC)
    /\ tickerC' = IF wpc = "select" THEN FALSE ELSE tickerC
    /\ polled' = TRUE
    /\ LET events == FindPendingEvents(outbox, LoginEventType, batchSize)
       IN  IF appCancelled \/ findFail \/ events = <<>>
           THEN /\ wpc' = "select"
                /\ batch' = <<>>
           ELSE /\ wpc' = "loop"
                /\ batch' = events
    /\ phase' = "poll"
    /\ UNCHANGED <<dbVars, queueVars, svcVars, txVars, envVars,
                   appCancelled, shutdownClosed, drainExpired,
                   stopVars, wgVars, drainVars, mainVars>>

\* the select of Start takes ctx.Done() or shutdownChan:
\* processRemainingEvents under a fresh 10 s context, then return
WorkerShutdown(findFail) ==
    /\ wpc = "select"
    /\ appCancelled \/ shutdownClosed
    /\ drainExpired' = FALSE
    /\ drains' = Min(drains + 1, MaxCount)
    /\ drainFetch' = IF findFail THEN "error" ELSE "ok"
    /\ drainPending' = {i \in 1..Len(outbox) :
                           /\ outbox[i].eventName = LoginEventType
                           /\ outbox[i].status = NotificationEventLogStatusPending}
    /\ attempted' = {}
    /\ LET events == FindPendingEvents(outbox, LoginEventType, batchSize)
       IN  IF findFail \/ events = <<>>
           THEN /\ wpc' = Return("drain")
                /\ batch' = <<>>
                /\ phase' = "poll"
           ELSE /\ wpc' = "loop"
                /\ batch' = events
                /\ phase' = "drain"
    /\ wgDones' = Deferred(wpc', wgDones)
    /\ UNCHANGED <<dbVars, queueVars, svcVars, txVars, envVars,
                   appCancelled, shutdownClosed, tickerC, stopVars, wgAdds,
                   polled, mainVars>>

\* the timeout of the drain pass's context fires
DrainTimeout ==
    /\ phase = "drain"
    /\ ~drainExpired
    /\ drainExpired' = TRUE
    /\ UNCHANGED <<dbVars, queueVars, svcVars, txVars, envVars,
                   wpc, phase, batch, appCancelled, shutdownClosed, goVars>>

\* one turn of the loop of processPendingLoginEvents up to the end of
\* SendLoginNotification: leave on a done context, else decode the payload
\* and enqueue the task
WorkerSend(enqueueFail) ==
    /\ wpc = "loop"
    /\ IF LoopEnds(batch, CtxDone)
       THEN /\ wpc' = Return(phase)
            /\ batch' = <<>>
            /\ phase' = "poll"
            /\ UNCHANGED <<outbox, enqueued, attempted>>
       ELSE /\ attempted' = IF phase = "drain"
                            THEN attempted \cup {Head(batch)} ELSE attempted
            /\ IF Unmarshal(outbox[Head(batch)].payload).err # None \/ enqueueFail
               THEN /\ wpc' = "loop"
                    /\ batch' = AfterError(batch)
                    /\ outbox' = processEventError(outbox, Head(batch))
                    /\ UNCHANGED <<phase, enqueued>>
               ELSE /\ wpc' = "update"
                    /\ enqueued' = [enqueued EXCEPT ![Head(batch)] = Min(@ + 1, MaxEnq)]
                    /\ UNCHANGED <<phase, batch, outbox>>
    /\ wgDones' = Deferred(wpc', wgDones)
    /\ UNCHANGED <<dbVars, processed, svcVars, txVars, envVars,
                   appCancelled, shutdownClosed, drainExpired, tickerC, stopVars,
                   wgAdds, polled, drains, drainFetch, drainPending, mainVars>>

\* the rest of processEvent: UpdateStatusSuccess(ctx, event.ID), which fails
\* on a done context or a storage error and then leaves the row as it is
WorkerUpdate(updateFail) ==
    /\ wpc = "update"
    /\ IF CtxDone \/ updateFail
       THEN /\ outbox' = processEventError(outbox, Head(batch))
            /\ batch' = AfterError(batch)
            /\ UNCHANGED processed
       ELSE /\ outbox' = UpdateStatusSuccess(outbox, Head(batch))
            /\ batch' = Tail(batch)
            /\ processed' = processed \cup {Head(batch)}
    /\ wpc' = "loop"
    /\ UNCHANGED <<dbVars, enqueued, svcVars, txVars, envVars,
                   phase, appCancelled, shutdownClosed, drainExpired, goVars>>

\* main cancels the application context on a signal or a server error
Cancel ==
    /\ ~appCancelled
    /\ appCancelled' = TRUE
    /\ UNCHANGED <<dbVars, queueVars, svcVars, txVars, envVars,
                   wpc, phase, batch, shutdownClosed, drainExpired, goVars>>

\* NotificationWorker.Stop: shutdownOnce.Do(close(shutdownChan)); closing a
\* closed channel panics
Stop ==
    /\ stopCalls' = IF stopCalls = "never" THEN "once" ELSE "repeated"
    /\ IF OnceDo(shutdownOnce)
       THEN /\ shutdownOnce' = TRUE
            /\ shutdownClosed' = TRUE
            /\ stopPanicked' = (stopPanicked \/ shutdownClosed)
       ELSE UNCHANGED <<shutdownOnce, shutdownClosed, stopPanicked>>
    /\ UNCHANGED <<dbVars, queueVars, svcVars, txVars, envVars,
                   wpc, phase, batch, appCancelled, drainExpired,
                   tickerC, wgVars, polled, drainVars, mainVars>>

\* the process ends (exit or kill) and a new one is constructed: the store
\* and the task queue keep their contents
Restart ==
    /\ wpc # "notstarted"
    /\ wpc' = "notstarted"
    /\ phase' = "poll"
    /\ batch' = <<>>
    /\ appCancelled' = FALSE
    /\ shutdownClosed' = FALSE
    /\ drainExpired' = FALSE
    /\ tickerC' = FALSE
    /\ shutdownOnce' = FALSE
    /\ stopCalls' = "never"
    /\ stopPanicked' = FALSE
    /\ wgAdds' = 0
    /\ wgDones' = 0
    /\ polled' = FALSE
    /\ drains' = 0
    /\ drainFetch' = "none"
    /\ drainPending' = {}
    /\ attempted' = {}
    /\ UNCHANGED <<dbVars, queueVars, svcVars, txVars, envVars, mainVars>>

\* the state of a process that has just been constructed
ProcessInit ==
    /\ wpc = "notstarted"
    /\ phase = "poll"
    /\ batch = <<>>
    /\ appCancelled = FALSE
    /\ shutdownClosed = FALSE
    /\ drainExpired = FALSE
    /\ tickerC = FALSE
    /\ shutdownOnce = FALSE
    /\ stopCalls = "never"
    /\ stopPanicked = FALSE
    /\ wgAdds = 0
    /\ wgDones = 0
    /\ polled = FALSE
    /\ drains = 0
    /\ drainFetch = "none"
    /\ drainPending = {}
    /\ attempted = {}
    /\ mainPc = "serving"
    /\ waiterPc = "none"
    /\ shutdownCtxDone = FALSE
    /\ serverStopped = FALSE
    /\ jwt = [op |-> None]
    /\ verified = [op |-> None]
    /\ rtRecord = NoRecord
    /\ rtCall = [op |-> None]
    /\ peerPc = "select"
    /\ peerBatch = <<>>

\* ------------------------------------------------------------ specification
Init ==
    /\ users = {}
    /\ refreshTokens = {}
    /\ outbox = <<>>
    /\ enqueued = <<>>
    /\ processed = {}
    /\ nCalls = 0
    /\ lastResp = NoResp
    /\ userRepoImpl \in UserRepoImpls
    /\ now = 1
    /\ ProcessInit
    /\ lastTx = NoTx
    /\ openTx = 0

\* The storage, codec and queue failures injected into one service call: the
\* first failing step decides the outcome, and a failing rollback can only
\* follow a failing statement of the callback.
Faults ==
    {{}} \cup {{f} : f \in {"get", "token", "user", "rt", "begin", "commit", "outbox"}}
         \cup {{"user", "rollback"}, {"rt", "rollback"}}

\* A call that returns before its first storage call takes the same step
\* under every fault, so the step is taken once, with no fault.
ServiceCall ==
    \/ \E email \in ReqEmails, password \in Passwords, fault \in Faults :
          /\ fault \cap {"get", "outbox"} = {}
          /\ (email \notin Emails \/ password # "Str0ng!pw") => fault = {}
          /\ Register(email, password, "token" \in fault, "user" \in fault,
                      "rt" \in fault, "begin" \in fault, "rollback" \in fault,
                      "commit" \in fault)
    \/ \E email \in ReqEmails, password \in Passwords, fault \in Faults :
          /\ "user" \notin fault
          /\ email = "" => fault = {}
          /\ Login(email, password, "get" \in fault, "token" \in fault,
                   "rt" \in fault, "begin" \in fault, "rollback" \in fault,
                   "commit" \in fault, "outbox" \in fault)

WorkerStep ==
    \/ Start
    \/ Tick
    \/ \E findFail \in BOOLEAN : WorkerPoll(findFail)
    \/ \E findFail \in BOOLEAN : WorkerShutdown(findFail)
    \/ \E enqueueFail \in BOOLEAN : WorkerSend(enqueueFail)
    \/ \E updateFail \in BOOLEAN : WorkerUpdate(updateFail)
    \/ DrainTimeout

\* the process as main wires it: main cancels the application context and
\* never calls Stop
Next ==
    \/ ServiceCall
    \/ WorkerStep
    \/ Cancel
    \/ Restart

Spec == Init /\ [][Next]_vars

\* LiveSpec: every step of the worker goroutine that is possible again and
\* again is eventually taken (the process is not killed before each of
\* them for ever), a process that has exited is started again, and the
\* store and the task queue accept a call that is made again and again.
PollStep == \E findFail \in BOOLEAN : WorkerPoll(findFail)
ShutdownStep == \E findFail \in BOOLEAN : WorkerShutdown(findFail)
SendStep == \E enqueueFail \in BOOLEAN : WorkerSend(enqueueFail)
UpdateStep == \E updateFail \in BOOLEAN : WorkerUpdate(updateFail)
FetchOK == (WorkerPoll(FALSE) \/ WorkerShutdown(FALSE)) /\ wpc' = "loop"
SendOK == WorkerSend(FALSE) /\ wpc' = "update"
UpdateOK == WorkerUpdate(FALSE) /\ outbox' # outbox
RestartExited == Restart /\ wpc = "exited"

\* the store holds a user registered by an earlier run
LiveInit ==
    /\ users = {[id |-> 1, email |-> "a@b.co",
                 passwordHash |-> NewPasswordHashFromPlain("Str0ng!pw")]}
    /\ refreshTokens = {}
    /\ outbox = <<>>
    /\ enqueued = <<>>
    /\ processed = {}
    /\ nCalls = 0
    /\ lastResp = NoResp
    /\ userRepoImpl = "repository"
    /\ now = 1
    /\ ProcessInit
    /\ lastTx = NoTx
    /\ openTx = 0

\* logins of that user, with and without a failing insert of the event row
LiveLogin ==
    /\ nCalls < MaxLiveCalls
    /\ \E outboxFail \in BOOLEAN :
          Login("a@b.co", "Str0ng!pw", FALSE, FALSE, FALSE, FALSE, FALSE, FALSE,
                outboxFail)

LiveNext ==
    \/ LiveLogin
    \/ WorkerStep
    \/ Cancel
    \/ Restart

LiveSpec ==
    /\ LiveInit
    /\ [][LiveNext]_vars
    /\ SF_vars(Start)
    /\ WF_vars(Tick)
    /\ SF_vars(PollStep)
    /\ SF_vars(SendStep)
    /\ SF_vars(UpdateStep)
    /\ WF_vars(RestartExited)
    /\ SF_vars(FetchOK)
    /\ SF_vars(SendOK)
    /\ SF_vars(UpdateOK)

\* ------------------------------------------------- the worker on its own
\* WorkerSpec: the worker runs over an event log that already holds rows of
\* every kind (a login row, a login row whose payload does not decode and
\* that was created earlier, a row of another event), under a caller that
\* cancels the context or calls Stop at any time.
WorkerRows ==
    LET params == [userID |-> 1, email |-> "a@b.co", loginAt |-> 1]
        row(name, payload, status, t) ==
            [id |-> 0, eventName |-> name, payload |-> payload,
             status |-> status, createdAt |-> t]
    IN  {row(LoginEventType, Marshal(params), NotificationEventLogStatusPending, 2),
         row(LoginEventType, MalformedPayload, NotificationEventLogStatusPending, 1),
         row(OrderCreatedEventType, Marshal(params), NotificationEventLogStatusPending, 1)}

\* the event logs of n rows, each row with its position as id
EventLogs(n) ==
    {[i \in 1..n |-> [f[i] EXCEPT !.id = i]] : f \in [1..n -> WorkerRows]}

WorkerInit ==
    /\ users = {}
    /\ refreshTokens = {}
    /\ \E n \in 0..MaxRows : outbox \in EventLogs(n)
    /\ enqueued = [i \in 1..Len(outbox) |->
                      IF outbox[i].status = NotificationEventLogStatusSuccess
                      THEN 1 ELSE 0]
    /\ processed = {}
    /\ nCalls = 0
    /\ lastResp = NoResp
    /\ userRepoImpl = "repository"
    /\ now = 1
    /\ ProcessInit
    /\ lastTx = NoTx
    /\ openTx = 0

\* the call of Stop that closes the channel
FirstStop == ~shutdownClosed /\ Stop

WorkerNext ==
    \/ WorkerStep
    \/ Cancel
    \/ FirstStop

WorkerSpec == WorkerInit /\ [][WorkerNext]_vars

\* ShutdownSpec: the worker over the smaller event logs, under a caller that
\* cancels the context and calls Stop at any time and any number of times.
\* Main has scheduled the goroutine that calls Start, a step of the
\* goroutine that stays possible is taken, and the select of Start, which
\* chooses among its ready cases at random, takes a case that is ready
\* again and again.
ShutdownInit == WorkerInit /\ Len(outbox) <= MaxLiveRows

ShutdownNext ==
    \/ WorkerStep
    \/ Cancel
    \/ Stop

ShutdownSpec ==
    /\ ShutdownInit
    /\ [][ShutdownNext]_vars
    /\ WF_vars(Start)
    /\ WF_vars(PollStep)
    /\ SF_vars(ShutdownStep)
    /\ WF_vars(SendStep)
    /\ WF_vars(UpdateStep)

\* ------------------------------------------------------ shutdown in main
\* faulty variant: the select of main has no deadline case
SelectCases_nodeadline(done, expired) ==
    IF done THEN {"shutdownDone"} ELSE {}

\* the cases of main's last select that are ready
SelectCases(done, expired) ==
    (IF done THEN {"shutdownDone"} ELSE {}) \cup
    (IF expired THEN {"shutdownCtx.Done"} ELSE {})

\* main receives a signal or a server error: it arms the shutdown deadline,
\* cancels the application context and starts the goroutine that waits for
\* the worker and stops the server
MainShutdown ==
    /\ mainPc = "serving"
    /\ mainPc' = "select"
    /\ appCancelled' = TRUE
    /\ waiterPc' = "wg.Wait"
    /\ UNCHANGED <<dbVars, queueVars, svcVars, txVars, envVars,
                   wpc, phase, batch, shutdownClosed, drainExpired,
                   tickerC, stopVars, wgVars, polled, drainVars,
                   shutdownCtxDone, serverStopped>>

\* wg.Wait() returns when the counter of the WaitGroup is zero
WaiterWait ==
    /\ waiterPc = "wg.Wait"
    /\ wgAdds = wgDones
    /\ waiterPc' = "GracefulStop"
    /\ UNCHANGED <<dbVars, queueVars, svcVars, txVars, envVars,
                   wpc, phase, batch, appCancelled, shutdownClosed, drainExpired,
                   tickerC, stopVars, wgVars, polled, drainVars,
                   mainPc, shutdownCtxDone, serverStopped>>

\* grpcServer.GracefulStop() returns, once the pending calls have finished,
\* and the goroutine closes shutdownDone
WaiterGracefulStop ==
    /\ waiterPc = "GracefulStop"
    /\ waiterPc' = "done"
    /\ serverStopped' = TRUE
    /\ UNCHANGED <<dbVars, queueVars, svcVars, txVars, envVars,
                   wpc, phase, batch, appCancelled, shutdownClosed, drainExpired,
                   tickerC, stopVars, wgVars, polled, drainVars,
                   mainPc, shutdownCtxDone>>

\* the 30 s of shutdownCtx elapse
ShutdownDeadline ==
    /\ mainPc = "select"
    /\ ~shutdownCtxDone
    /\ shutdownCtxDone' = TRUE
    /\ UNCHANGED <<dbVars, queueVars, svcVars, txVars, envVars,
                   wpc, phase, batch, appCancelled, shutdownClosed, drainExpired,
                   tickerC, stopVars, wgVars, polled, drainVars,
                   mainPc, waiterPc, serverStopped>>

\* the last select of main: shutdownDone is closed, or the deadline has
\* expired and main calls grpcServer.Stop(); then main returns
MainSelect ==
    /\ mainPc = "select"
    /\ \E c \in SelectCases(waiterPc = "done", shutdownCtxDone) :
          IF c = "shutdownDone"
          THEN /\ mainPc' = "completed"
               /\ UNCHANGED serverStopped
          ELSE /\ mainPc' = "forced"
               /\ serverStopped' = TRUE
    /\ UNCHANGED <<dbVars, queueVars, svcVars, txVars, envVars,
                   wpc, phase, batch, appCancelled, shutdownClosed, drainExpired,
                   tickerC, stopVars, wgVars, polled, drainVars,
                   waiterPc, shutdownCtxDone>>

\* MainSpec: the process from the start of main to its return; goroutines
\* run until main returns. The deadline timer and main itself take their
\* steps; nothing is assumed of the worker, the waiting goroutine or the
\* server.
MainRunning == mainPc \in {"serving", "select"}

MainNext ==
    \/ MainRunning /\ WorkerStep
    \/ MainRunning /\ WaiterWait
    \/ MainRunning /\ WaiterGracefulStop
    \/ MainShutdown
    \/ ShutdownDeadline
    \/ MainSelect

MainSpec ==
    /\ ShutdownInit
    /\ [][MainNext]_vars
    /\ WF_vars(ShutdownDeadline)
    /\ WF_vars(MainSelect)

\* ------------------------------------- callers of the transaction manager
\* TxSpec: a caller runs the TransactionManager methods with callbacks of
\* every kind (returning nil, returning an error, panicking), under every
\* outcome of begin, rollback and commit.
TxVariants ==
    {"WithTransaction", "WithTransactionOptions", "WithTransactionIsolation",
     "WithReadOnlyTransaction", "WithSerializableTransaction",
     "WithRepeatableReadTransaction", "WithReadUncommittedTransaction",
     "WithTransactionRecovering"}

RunVariant(v, db, fn, beginFail, rbFail, commitFail) ==
    CASE v = "WithTransaction" ->
            WithTransaction(db, fn, beginFail, rbFail, commitFail)
      [] v = "WithTransactionOptions" ->
            WithTransactionOptions(db, fn, ReadCommitted, beginFail, rbFail, commitFail)
      [] v = "WithTransactionIsolation" ->
            WithTransactionIsolation(db, fn, "LevelReadCommitted", beginFail, rbFail, commitFail)
      [] v = "WithReadOnlyTransaction" ->
            WithReadOnlyTransaction(db, fn, beginFail, rbFail, commitFail)
      [] v = "WithSerializableTransaction" ->
            WithSerializableTransaction(db, fn, beginFail, rbFail, commitFail)
      [] v = "WithRepeatableReadTransaction" ->
            WithRepeatableReadTransaction(db, fn, beginFail, rbFail, commitFail)
      [] v = "WithReadUncommittedTransaction" ->
            WithReadUncommittedTransaction(db, fn, beginFail, rbFail, commitFail)
      [] v = "WithTransactionRecovering" ->
            WithTransactionRecovering(db, fn, beginFail, rbFail, commitFail)

\* the callbacks of call k: each writes the user row k through the handle
\* (or nothing) and then returns nil, returns an error or panics
TxFns(k) ==
    LET row(e) == [id |-> k, email |-> e,
                   passwordHash |-> NewPasswordHashFromPlain("Str0ng!pw")]
        writes == {NoWrites} \cup
                  {[users |-> {row(e)}, refreshTokens |-> {}] : e \in Emails}
    IN  {FnResult(e, p, w, NoWrites) :
            e \in {None, "fn error"}, p \in BOOLEAN, w \in writes}

TxCall(v, fn, beginFail, rbFail, commitFail) ==
    /\ nCalls < MaxTxCalls
    /\ nCalls' = nCalls + 1
    /\ LET db == [users |-> users, refreshTokens |-> refreshTokens]
           out == RunVariant(v, db, fn, beginFail, rbFail, commitFail)
       IN  /\ users' = out.db.users
           /\ refreshTokens' = out.db.refreshTokens
           /\ lastTx' = [variant |-> v, fnErr |-> fn.err, fnPanic |-> fn.panic,
                         fnTx |-> fn.tx.users, beginFail |-> beginFail,
                         rbFail |-> rbFail, commitFail |-> commitFail,
                         err |-> out.err, panic |-> out.panic, end |-> out.end]
           /\ openTx' = IF out.end = "open" THEN Min(openTx + 1, MaxOpenTx) ELSE openTx
    /\ UNCHANGED <<queueVars, workerVars, lastResp, envVars>>

TxNext ==
    \E v \in TxVariants, fn \in TxFns(nCalls + 1),
       beginFail, rbFail, commitFail \in BOOLEAN :
       /\ ~(fn.panic /\ fn.err # None)
       /\ TxCall(v, fn, beginFail, rbFail, commitFail)

TxSpec == Init /\ [][TxNext]_vars

\* --------------------------------- callers of the event-log repository
\* RepoSpec: a caller runs the methods of NotificationEventLogRepository
\* with every row id.
RepoCreate ==
    /\ nCalls < MaxCalls
    /\ nCalls' = nCalls + 1
    /\ outbox' = Append(outbox,
                        LoginEventRow(nCalls + 1,
                                      [id |-> nCalls + 1, email |-> "a@b.co"], now))
    /\ enqueued' = Append(enqueued, 0)
    /\ UNCHANGED <<dbVars, processed, lastResp, workerVars, txVars, envVars>>

RepoFindPendingEvents(n) ==
    /\ batch' = FindPendingEvents(outbox, LoginEventType, n)
    /\ UNCHANGED <<dbVars, queueVars, svcVars, txVars, envVars,
                   wpc, phase, appCancelled, shutdownClosed, drainExpired, goVars>>

RepoUpdateStatusSuccess(i) ==
    /\ outbox' = UpdateStatusSuccess(outbox, i)
    /\ UNCHANGED <<dbVars, enqueued, processed, svcVars, workerVars, txVars,
                   envVars>>

RepoUpdateStatusFailed(i) ==
    /\ outbox' = UpdateStatusFailed(outbox, i)
    /\ UNCHANGED <<dbVars, enqueued, processed, svcVars, workerVars, txVars,
                   envVars>>

RepoNext ==
    \/ RepoCreate
    \/ \E n \in 1..batchSize : RepoFindPendingEvents(n)
    \/ \E i \in 1..Len(outbox) : RepoUpdateStatusSuccess(i)
    \/ \E i \in 1..Len(outbox) : RepoUpdateStatusFailed(i)

RepoSpec == Init /\ [][RepoNext]_vars

\* ------------------------------------------------------------------ int64
\* The program's int64 values (time.Duration, Unix seconds) do not fit the
\* integers of the model checker, so an int64 is kept as its eight bytes,
\* least significant first, in two's complement, and the operators wrap as
\* Go's int64 operators do.

\* the int64 of a natural number below 2^31
Int64(n) == [i \in 1..8 |-> IF i <= 4 THEN (n \div (256 ^ (i - 1))) % 256 ELSE 0]

\* math.MaxInt64
MaxInt64 == [i \in 1..8 |-> IF i = 8 THEN 127 ELSE 255]

\* a + b on int64
Add64(a, b) ==
    LET sum(x, y) ==
            LET RECURSIVE carry(_)
                carry(i) == IF i = 0 THEN 0 ELSE (x[i] + y[i] + carry(i - 1)) \div 256
            IN  [i \in 1..8 |-> (x[i] + y[i] + carry(i - 1)) % 256]
    IN  CHOOSE r \in {sum(x, y) : x \in {a}, y \in {b}} : TRUE

\* -a on int64
Neg64(a) == Add64([i \in 1..8 |-> 255 - a[i]], Int64(1))

\* a * b on int64: the low 64 bits of the product
Mul64(a, b) ==
    LET product(x, y) ==
            LET RECURSIVE col(_, _)
                col(k, i) == IF i = 0 THEN 0 ELSE x[i] * y[k + 1 - i] + col(k, i - 1)
                RECURSIVE carry(_)
                carry(k) == IF k = 0 THEN 0 ELSE (col(k, k) + carry(k - 1)) \div 256
            IN  [k \in 1..8 |-> (col(k, k) + carry(k - 1)) % 256]
    IN  CHOOSE r \in {product(x, y) : x \in {a}, y \in {b}} : TRUE

\* a < 0 on int64
IsNeg(a) == a[8] >= 128

\* a < b on int64 (signed)
Less64(a, b) ==
    LET key(x, i) == IF i = 8 THEN (x[8] + 128) % 256 ELSE x[i]
        less(x, y) ==
            LET RECURSIVE lt(_)
                lt(i) == IF i = 0 THEN FALSE
                         ELSE \/ key(x, i) < key(y, i)
                              \/ key(x, i) = key(y, i) /\ lt(i - 1)
            IN  lt(8)
    IN  \E x \in {a}, y \in {b} : less(x, y)

\* time.Second, in nanoseconds
Second == Int64(1000000000)

\* d / 1e9 on int64: the quotient truncated toward zero
Seconds64(d) ==
    LET by1000(a) ==
            LET quotient(x) ==
                    LET RECURSIVE rem(_)
                        rem(i) == IF i = 9 THEN 0
                                  ELSE (rem(i + 1) * 256 + x[i]) % 1000
                    IN  [i \in 1..8 |-> (rem(i + 1) * 256 + x[i]) \div 1000]
            IN  CHOOSE r \in {quotient(x) : x \in {a}} : TRUE
        trunc(x) ==
            IF IsNeg(x) THEN Neg64(by1000(by1000(by1000(Neg64(x)))))
            ELSE by1000(by1000(by1000(x)))
    IN  CHOOSE r \in {trunc(x) : x \in {d}} : TRUE

\* time.Time.Add(d).Unix() for a wall clock reading of t whole seconds:
\* Add moves the seconds by d / 1e9 and borrows one second when the
\* remainder d % 1e9 is negative
UnixAfter(t, d) ==
    LET unix(x) ==
            LET dsec == Seconds64(x)
                nsec == Add64(x, Neg64(Mul64(dsec, Second)))
            IN  Add64(Add64(Int64(t), dsec),
                      IF IsNeg(nsec) THEN Neg64(Int64(1)) ELSE Int64(0))
    IN  CHOOSE r \in {unix(x) : x \in {d}} : TRUE

\* ------------------------------------------------------------- token codec
\* errors of package token and the errors of the jwt library it tests for
token_ErrInvalidToken == "token is invalid"
token_ErrExpiredToken == "token has expired"
jwt_ErrTokenExpired == "token is expired"
ErrTokenInvalidId == "token has invalid id"
ErrTokenRequiredClaimMissing == "token is missing required claim"

\* the secret key of the maker, and a key an outsider signs with
secretKey == "your-secret-key-change-in-production"
otherKey == "another-key-of-at-least-32-characters"

\* jwt.access_token_duration as configured: a time.Duration, which counts
\* nanoseconds (the default of 15 minutes, and 5 seconds)
AccessTokenDurations == {Mul64(Int64(15 * 60), Second), Mul64(Int64(5), Second)}

\* faulty variant: the duration is taken as nanoseconds
NewPayload_nanos(userID, username, duration, tokenID, t, t2) ==
    [ID |-> tokenID, UserID |-> userID, Username |-> username,
     IssuedAt |-> Int64(t),
     ExpiredAt |-> UnixAfter(t2, duration)]

\* NewPayload: a fresh token id, issued now, expiring after
\* time.Duration(duration) * time.Second; t and t2 are the two readings of
\* the clock
NewPayload(userID, username, duration, tokenID, t, t2) ==
    [ID |-> tokenID, UserID |-> userID, Username |-> username,
     IssuedAt |-> Int64(t),
     ExpiredAt |-> UnixAfter(t2, Mul64(duration, Second))]

\* Payload.Valid
PayloadValid(payload, t) ==
    IF Less64(payload.ExpiredAt, Int64(t)) THEN jwt_ErrTokenExpired
    ELSE IF payload.ID = NilUUID THEN ErrTokenInvalidId
    ELSE IF payload.UserID = "" THEN ErrTokenRequiredClaimMissing
    ELSE IF payload.Username = "" THEN ErrTokenRequiredClaimMissing
    ELSE None

\* the HS256 signature of a header and a claims segment under a key
HMAC(key, header, claims) == <<"HMAC-SHA256", key, header, claims>>

\* jwt.NewWithClaims(jwt.SigningMethodHS256, payload).SignedString(key): the
\* header, the JSON of the payload under its json tags, and the signature
SignedString(alg, payload, key) ==
    LET header == [alg |-> alg, typ |-> "JWT"]
        claims == [id |-> payload.ID, user_id |-> payload.UserID,
                   username |-> payload.Username,
                   expired_at |-> payload.ExpiredAt,
                   issued_at |-> payload.IssuedAt]
    IN  [decodes |-> TRUE, header |-> header, claims |-> claims,
         signature |-> HMAC(key, header, claims)]

\* a string that is not three base64 segments of JSON
MalformedToken ==
    [decodes |-> FALSE, header |-> [alg |-> "", typ |-> ""],
     claims |-> [id |-> NilUUID, user_id |-> "", username |-> "",
                 expired_at |-> Int64(0), issued_at |-> Int64(0)],
     signature |-> <<>>]

\* JWTTokenMaker.CreateAccessToken
CreateAccessToken(userID, username, duration, tokenID, t, t2) ==
    SignedString("HS256", NewPayload(userID, username, duration, tokenID, t, t2),
                 secretKey)

\* JWTTokenMaker.CreateRefreshToken
CreateRefreshToken(userID, username, duration, tokenID, t, t2) ==
    SignedString("HS256", NewPayload(userID, username, duration, tokenID, t, t2),
                 secretKey)

\* JWTTokenMaker.CreateTokenPair: the access token, then the refresh token
CreateTokenPair(userID, username, duration, tokenID, t, t2) ==
    <<CreateAccessToken(userID, username, duration, tokenID, t, t2),
      CreateRefreshToken(userID, username, duration, tokenID + 1, t, t2)>>

\* UserService.createTokenPair and the same call in Register: the configured
\* time.Duration is converted with int64() and handed over as the duration
createTokenPair(user, accessTokenDuration, tokenID, t, t2) ==
    CreateTokenPair(user.id, user.username, accessTokenDuration, tokenID, t, t2)

\* faulty variant: an expired token is let through
ParseWithClaims_noexp(token, t) ==
    IF ~token.decodes THEN [errs |-> {"token is malformed"}, payload |-> None]
    ELSE IF token.header.alg \notin {"HS256", "HS384", "HS512"}
    THEN [errs |-> {"token is unverifiable", token_ErrInvalidToken}, payload |-> None]
    ELSE IF token.signature # HMAC(secretKey, token.header, token.claims)
    THEN [errs |-> {"token signature is invalid"}, payload |-> None]
    ELSE [errs |-> {},
          payload |-> [ID |-> token.claims.id, UserID |-> token.claims.user_id,
                       Username |-> token.claims.username,
                       ExpiredAt |-> token.claims.expired_at,
                       IssuedAt |-> token.claims.issued_at]]

\* jwt.ParseWithClaims(token, &Payload{}, keyFunc) at clock reading t: the
\* segments are decoded into the Payload, keyFunc refuses a signing method
\* that is not HMAC, the signature is checked under the maker's key, and the
\* registered claims are validated through the Payload's Get methods, where
\* only GetExpirationTime returns a value: the token is expired unless
\* t is before expired_at
ParseWithClaims(token, t) ==
    IF ~token.decodes THEN [errs |-> {"token is malformed"}, payload |-> None]
    ELSE IF token.header.alg \notin {"HS256", "HS384", "HS512"}
    THEN [errs |-> {"token is unverifiable", token_ErrInvalidToken}, payload |-> None]
    ELSE IF token.signature # HMAC(secretKey, token.header, token.claims)
    THEN [errs |-> {"token signature is invalid"}, payload |-> None]
    ELSE LET payload == [ID |-> token.claims.id, UserID |-> token.claims.user_id,
                         Username |-> token.claims.username,
                         ExpiredAt |-> token.claims.expired_at,
                         IssuedAt |-> token.claims.issued_at]
         IN  [errs |-> IF Less64(Int64(t), payload.ExpiredAt)
                       THEN {} ELSE {jwt_ErrTokenExpired},
              payload |-> payload]

\* JWTTokenMaker.VerifyAccessToken
VerifyAccessToken(token, t) ==
    LET parsed == ParseWithClaims(token, t)
    IN  IF parsed.errs # {}
        THEN IF jwt_ErrTokenExpired \in parsed.errs
             THEN [err |-> token_ErrExpiredToken, payload |-> None]
             ELSE [err |-> token_ErrInvalidToken, payload |-> None]
        ELSE [err |-> None, payload |-> parsed.payload]

\* JWTTokenMaker.VerifyRefreshToken
VerifyRefreshToken(token, t) == VerifyAccessToken(token, t)


\* --------------------------------------------------- callers of the codec
\* the subjects tokens are made for
TokenUsers == {[id |-> "u-1", username |-> "alice"]}

\* the largest ttl in seconds whose nanoseconds fit an int64
MaxTTL == Seconds64(MaxInt64)

\* ttl values in seconds handed to the maker
TTLSeconds == {Int64(1), Int64(2), MaxTTL, Add64(MaxTTL, Int64(1))}

\* payloads an outsider can put into a token: any of the claims empty, the
\* token id nil, expiry in the past or in the future
ForgedPayloads ==
    [ID : {NilUUID, 1}, UserID : {"", "u-1"}, Username : {"", "alice"},
     IssuedAt : {Int64(0)}, ExpiredAt : {Int64(0), Int64(2)}]

\* tokens that did not come from the maker: malformed, with a signing method
\* that is not HMAC, signed with another key, or carrying the maker's
\* signature over arbitrary claims
ForgedTokens ==
    {MalformedToken} \cup
    {SignedString(alg, p, key) : alg \in {"HS256", "RS256"},
                                 key \in {secretKey, otherKey},
                                 p \in ForgedPayloads}

\* a call of CreateAccessToken or CreateRefreshToken with a ttl in seconds;
\* the clock may move on between the two readings NewPayload takes (a run
\* follows one token from its making)
TokenCreate(op, user, duration, tokenID, lag) ==
    /\ jwt.op = None
    /\ now + lag <= MaxClock
    /\ now' = now + lag
    /\ jwt' = [op |-> op, userID |-> user.id, username |-> user.username,
               duration |-> duration, at |-> now, lag |-> lag,
               tokens |-> IF op = "CreateAccessToken"
                          THEN <<CreateAccessToken(user.id, user.username, duration,
                                                   tokenID, now, now + lag)>>
                          ELSE <<CreateRefreshToken(user.id, user.username, duration,
                                                    tokenID, now, now + lag)>>]
    /\ verified' = [op |-> None]
    /\ UNCHANGED <<dbVars, queueVars, svcVars, txVars, workerVars, peerVars, userRepoImpl,
                   rtRecord, rtCall>>

\* the token pair Register and Login make for a user
ServiceTokenPair(user, accessTokenDuration, tokenID, lag) ==
    /\ jwt.op = None
    /\ now + lag <= MaxClock
    /\ now' = now + lag
    /\ jwt' = [op |-> "createTokenPair", userID |-> user.id,
               username |-> user.username, duration |-> accessTokenDuration,
               at |-> now, lag |-> lag,
               tokens |-> createTokenPair(user, accessTokenDuration, tokenID,
                                          now, now + lag)]
    /\ verified' = [op |-> None]
    /\ UNCHANGED <<dbVars, queueVars, svcVars, txVars, workerVars, peerVars, userRepoImpl,
                   rtRecord, rtCall>>

\* a token from outside is presented
TokenForge(token) ==
    /\ jwt.op = None
    /\ jwt' = [op |-> "forged", userID |-> "", username |-> "",
               duration |-> Int64(0), at |-> now, lag |-> 0, tokens |-> <<token>>]
    /\ verified' = [op |-> None]
    /\ UNCHANGED <<dbVars, queueVars, svcVars, txVars, workerVars, peerVars, userRepoImpl, now,
                   rtRecord, rtCall>>

\* a call of VerifyAccessToken or VerifyRefreshToken on a token in hand
TokenVerify(op, i) ==
    /\ jwt.op # None
    /\ i \in 1..Len(jwt.tokens)
    /\ LET out == IF op = "VerifyAccessToken"
                  THEN VerifyAccessToken(jwt.tokens[i], now)
                  ELSE VerifyRefreshToken(jwt.tokens[i], now)
       IN  verified' = [op |-> op, i |-> i, at |-> now, err |-> out.err,
                        payload |-> out.payload]
    /\ UNCHANGED <<dbVars, queueVars, svcVars, txVars, workerVars, peerVars, userRepoImpl, now,
                   jwt, rtRecord, rtCall>>

\* a call of Valid on the payload of a verified token
TokenPayloadValid ==
    /\ verified.op \in {"VerifyAccessToken", "VerifyRefreshToken"}
    /\ verified.err = None
    /\ verified' = [verified EXCEPT !.op = "Valid", !.at = now,
                                    !.err = PayloadValid(verified.payload, now)]
    /\ UNCHANGED <<dbVars, queueVars, svcVars, txVars, workerVars, peerVars, userRepoImpl, now,
                   jwt, rtRecord, rtCall>>

\* the wall clock moves on by one second
TokenClock ==
    /\ now < MaxClock
    /\ now' = now + 1
    /\ UNCHANGED <<dbVars, queueVars, svcVars, txVars, workerVars, peerVars, userRepoImpl,
                   codecVars>>

TokenNext ==
    \/ \E op \in {"CreateAccessToken", "CreateRefreshToken"}, user \in TokenUsers,
          duration \in TTLSeconds, lag \in {0, 1} :
          TokenCreate(op, user, duration, 1, lag)
    \/ \E user \in TokenUsers, d \in AccessTokenDurations, lag \in {0, 1} :
          ServiceTokenPair(user, d, 1, lag)
    \/ \E token \in ForgedTokens : TokenForge(token)
    \/ \E op \in {"VerifyAccessToken", "VerifyRefreshToken"}, i \in {1, 2} :
          TokenVerify(op, i)
    \/ TokenPayloadValid
    \/ TokenClock

TokenSpec == Init /\ [][TokenNext]_vars

\* ---------------------------------------- callers of the refresh-token record
\* records a caller can hold: scanned from a row of refresh_tokens or built
\* by hand, with any of the ids nil, the token empty, revoked or not, and an
\* expiry on either side of the clock
StoredRecords ==
    [id : {NilUUID, 1}, userID : {NilUUID, 1}, token : {NoToken, 7},
     expiresAt : 1..MaxClock, isRevoked : BOOLEAN, createdAt : {0}, updatedAt : {0}]

\* a record comes into the caller's hands
RtLoad(r) ==
    /\ rtCall.op = None
    /\ rtRecord' = r
    /\ rtCall' = [op |-> "load", err |-> None, at |-> now, args |-> <<>>]
    /\ UNCHANGED <<dbVars, queueVars, svcVars, txVars, workerVars, peerVars, userRepoImpl, now,
                   jwt, verified>>

\* a call of NewRefreshToken; the clock may move on between its readings
RtNew(userID, tokenHash, expiresAt, lag1, lag2) ==
    /\ rtCall.op = None
    /\ now + lag1 + lag2 <= MaxClock
    /\ now' = now + lag1 + lag2
    /\ LET out == NewRefreshToken(userID, tokenHash, expiresAt, 1,
                                  <<now, now + lag1, now + lag1 + lag2>>)
       IN  /\ rtRecord' = IF out.err = None THEN out.rt ELSE NoRecord
           /\ rtCall' = [op |-> "NewRefreshToken", err |-> out.err, at |-> now,
                         args |-> <<userID, tokenHash, expiresAt>>]
    /\ UNCHANGED <<dbVars, queueVars, svcVars, txVars, workerVars, peerVars, userRepoImpl,
                   jwt, verified>>

\* the caller holds a record (NewRefreshToken returns nil with its errors)
RtHeld == rtCall.op # None /\ ~(rtCall.op = "NewRefreshToken" /\ rtCall.err # None)

\* a call of IsValid, of the domain model or of package token
RtIsValid(op) ==
    /\ RtHeld
    /\ rtCall' = [op |-> op, at |-> now, args |-> <<>>,
                  err |-> IF op = "IsValid" THEN IsValid(rtRecord, now)
                          ELSE token_IsValid(rtRecord, now)]
    /\ UNCHANGED <<dbVars, queueVars, svcVars, txVars, workerVars, peerVars, userRepoImpl, now,
                   jwt, verified, rtRecord>>

\* a call of Revoke
RtRevoke ==
    /\ RtHeld
    /\ rtRecord' = Revoke(rtRecord, now)
    /\ rtCall' = [op |-> "Revoke", err |-> None, at |-> now, args |-> <<>>]
    /\ UNCHANGED <<dbVars, queueVars, svcVars, txVars, workerVars, peerVars, userRepoImpl, now,
                   jwt, verified>>

\* the wall clock moves on by one millisecond
RtClock ==
    /\ rtCall.op # None
    /\ now < MaxClock
    /\ now' = now + 1
    /\ UNCHANGED <<dbVars, queueVars, svcVars, txVars, workerVars, peerVars, userRepoImpl,
                   codecVars>>

RefreshNext ==
    \/ \E r \in StoredRecords : RtLoad(r)
    \/ \E userID \in {NilUUID, 1}, tokenHash \in {NoToken, 7},
          expiresAt \in 0..(MaxClock + 1), lag1 \in 0..2, lag2 \in 0..1 :
          RtNew(userID, tokenHash, expiresAt, lag1, lag2)
    \/ \E op \in {"IsValid", "token.IsValid"} : RtIsValid(op)
    \/ RtRevoke
    \/ RtClock

RefreshSpec == Init /\ [][RefreshNext]_vars

\* ------------------------------------------------------ token refresh
\* RefreshTokenRepository.GetByToken
GetByToken(rows, token, fail) ==
    IF fail THEN [err |-> ErrGetRefreshToken, rt |-> NoRecord]
    ELSE IF \E r \in rows : r.token = token
         THEN [err |-> None, rt |-> CHOOSE r \in rows : r.token = token]
         ELSE [err |-> ErrTokenNotFound, rt |-> NoRecord]

\* UserRepository.GetByID
GetByID(rows, id, fail) ==
    IF fail THEN ErrGetUserByID
    ELSE IF \E u \in rows : u.id = id THEN None
    ELSE ErrUserNotFound

\* faulty variant: a revoked record is let through
RefreshOutcome_norevoke(rows, people, token, t, getFail, userFail, tokenFail) ==
    LET got == GetByToken(rows, token, getFail)
    IN  IF token = NoToken THEN ErrTokenIsRequired
        ELSE IF got.err # None THEN got.err
        ELSE IF got.rt.expiresAt < t THEN ErrTokenExpired
        ELSE IF GetByID(people, got.rt.userID, userFail) # None
        THEN GetByID(people, got.rt.userID, userFail)
        ELSE IF tokenFail THEN ErrCreateTokenPair
        ELSE None

\* the checks of UserService.RefreshToken in their order: the token is
\* present, its record is found, not revoked, not expired, its user exists,
\* the access token is made
RefreshOutcome(rows, people, token, t, getFail, userFail, tokenFail) ==
    LET got == GetByToken(rows, token, getFail)
    IN  IF token = NoToken THEN ErrTokenIsRequired
        ELSE IF got.err # None THEN got.err
        ELSE IF got.rt.isRevoked THEN ErrTokenRevoked
        ELSE IF got.rt.expiresAt < t THEN ErrTokenExpired
        ELSE IF GetByID(people, got.rt.userID, userFail) # None
        THEN GetByID(people, got.rt.userID, userFail)
        ELSE IF tokenFail THEN ErrCreateTokenPair
        ELSE None

\* faulty variant: the token that was used is revoked (rotation)
RefreshToken_rotate(token, getFail, userFail, tokenFail) ==
    /\ nCalls < MaxCalls
    /\ nCalls' = nCalls + 1
    /\ LET err == RefreshOutcome(refreshTokens, users, token, now,
                                 getFail, userFail, tokenFail)
           used == {r \in refreshTokens : r.token = token}
       IN  /\ lastResp' = IF err # None THEN Fail("RefreshToken", err)
                          ELSE Resp("RefreshToken", None, NilUUID, nCalls + 1, NoToken)
           /\ refreshTokens' = IF err # None THEN refreshTokens
                               ELSE (refreshTokens \ used) \cup
                                    {Revoke(r, now) : r \in used}
    /\ UNCHANGED <<users, queueVars, workerVars, txVars, envVars>>

\* UserService.RefreshToken: the response carries a new access token only
RefreshToken(token, getFail, userFail, tokenFail) ==
    /\ nCalls < MaxCalls
    /\ nCalls' = nCalls + 1
    /\ LET err == RefreshOutcome(refreshTokens, users, token, now,
                                 getFail, userFail, tokenFail)
       IN  lastResp' = IF err # None THEN Fail("RefreshToken", err)
                       ELSE Resp("RefreshToken", None, NilUUID, nCalls + 1, NoToken)
    /\ UNCHANGED <<dbVars, queueVars, workerVars, txVars, envVars>>

\* the rows the service finds when it starts: a user, a refresh token of
\* theirs that runs out at clock reading 3, and one that was revoked
SeedUser ==
    [id |-> 10, email |-> "c@d.co",
     passwordHash |-> NewPasswordHashFromPlain("Str0ng!pw")]

SeedTokens ==
    {[id |-> 11, userID |-> 10, token |-> 11, expiresAt |-> 3,
      isRevoked |-> FALSE, createdAt |-> 0, updatedAt |-> 0],
     [id |-> 12, userID |-> 10, token |-> 12, expiresAt |-> 3,
      isRevoked |-> TRUE, createdAt |-> 0, updatedAt |-> 0]}

\* refresh tokens a request can carry: none, the stored ones, the ones of
\* the explored logins, an unknown one
ReqTokens == {NoToken, 99} \cup {r.token : r \in SeedTokens} \cup 1..MaxCalls

AuthInit ==
    /\ users = {SeedUser}
    /\ refreshTokens = SeedTokens
    /\ outbox = <<>>
    /\ enqueued = <<>>
    /\ processed = {}
    /\ nCalls = 0
    /\ lastResp = NoResp
    /\ userRepoImpl = "repository"
    /\ now = 1
    /\ ProcessInit
    /\ lastTx = NoTx
    /\ openTx = 0

\* the wall clock moves on by one millisecond
AuthClock ==
    /\ now < MaxClock
    /\ now' = now + 1
    /\ UNCHANGED <<dbVars, queueVars, svcVars, txVars, workerVars, peerVars, userRepoImpl,
                   codecVars>>

AuthNext ==
    \/ nCalls < MaxAuthCalls /\ ServiceCall
    \/ \E token \in ReqTokens, fault \in {{}, {"get"}, {"user"}, {"token"}} :
          /\ nCalls < MaxAuthCalls
          /\ RefreshToken(token, "get" \in fault, "user" \in fault, "token" \in fault)
    \/ AuthClock

AuthSpec == AuthInit /\ [][AuthNext]_vars

\* ------------------------------------------- delivery past failing rows
\* DeliverySpec: the worker over the event logs of WorkerSpec while the
\* process runs (the context is not cancelled, Stop is not called). The
\* goroutine is scheduled, the ticker ticks, and the store and the task
\* queue accept a call that is made again and again. A payload that does
\* not decode fails at every attempt.
DeliveryNext ==
    \/ Start
    \/ Tick
    \/ PollStep
    \/ SendStep
    \/ UpdateStep

DeliverySpec ==
    /\ WorkerInit
    /\ [][DeliveryNext]_vars
    /\ WF_vars(Start)
    /\ WF_vars(Tick)
    /\ WF_vars(PollStep)
    /\ WF_vars(SendStep)
    /\ WF_vars(UpdateStep)
    /\ SF_vars(FetchOK)
    /\ SF_vars(SendOK)
    /\ SF_vars(UpdateOK)

\* --------------------------------------------- a second worker instance
\* A second process runs the same worker over the same store and queue (the
\* old and the new process of a rolling restart). Its context is live; its
\* goroutine polls at its own ticks.
\* processPendingLoginEvents of the second instance up to the loop
PeerPoll(findFail) ==
    /\ peerPc = "select"
    /\ LET events == FindPendingEvents(outbox, LoginEventType, batchSize)
       IN  IF findFail \/ events = <<>>
           THEN UNCHANGED peerVars
           ELSE /\ peerPc' = "loop"
                /\ peerBatch' = events
    /\ UNCHANGED <<dbVars, queueVars, svcVars, txVars, workerVars,
                   userRepoImpl, now, codecVars>>

\* one turn of its loop up to the end of SendLoginNotification
PeerSend(enqueueFail) ==
    /\ peerPc = "loop"
    /\ IF LoopEnds(peerBatch, FALSE)
       THEN /\ peerPc' = "select"
            /\ peerBatch' = <<>>
            /\ UNCHANGED <<outbox, enqueued>>
       ELSE IF Unmarshal(outbox[Head(peerBatch)].payload).err # None \/ enqueueFail
       THEN /\ peerPc' = "loop"
            /\ peerBatch' = AfterError(peerBatch)
            /\ outbox' = processEventError(outbox, Head(peerBatch))
            /\ UNCHANGED enqueued
       ELSE /\ peerPc' = "update"
            /\ enqueued' = [enqueued EXCEPT ![Head(peerBatch)] = Min(@ + 1, MaxEnq)]
            /\ UNCHANGED <<peerBatch, outbox>>
    /\ UNCHANGED <<dbVars, processed, svcVars, txVars, workerVars,
                   userRepoImpl, now, codecVars>>

\* the rest of its processEvent: UpdateStatusSuccess
PeerUpdate(updateFail) ==
    /\ peerPc = "update"
    /\ IF updateFail
       THEN /\ outbox' = processEventError(outbox, Head(peerBatch))
            /\ peerBatch' = AfterError(peerBatch)
            /\ UNCHANGED processed
       ELSE /\ outbox' = UpdateStatusSuccess(outbox, Head(peerBatch))
            /\ peerBatch' = Tail(peerBatch)
            /\ processed' = processed \cup {Head(peerBatch)}
    /\ peerPc' = "loop"
    /\ UNCHANGED <<dbVars, enqueued, svcVars, txVars, workerVars,
                   userRepoImpl, now, codecVars>>

\* PeerSpec: two instances poll the same event log; every call of the
\* store and of the queue succeeds, no context is cancelled and no process
\* is killed.
PeerNext ==
    \/ Start
    \/ Tick
    \/ WorkerPoll(FALSE)
    \/ WorkerSend(FALSE)
    \/ WorkerUpdate(FALSE)
    \/ PeerPoll(FALSE)
    \/ PeerSend(FALSE)
    \/ PeerUpdate(FALSE)

PeerSpec == WorkerInit /\ [][PeerNext]_vars

\* ------------------------------------------- logins during the shutdown
\* ExitSpec: the process from the start of main to its return, with a
\* healthy store and queue: the server answers logins of the stored user
\* until Serve has returned, the worker runs as main launched it, and no
\* call of the store or the queue fails.
ExitLogin ==
    /\ MainRunning
    /\ ~serverStopped
    /\ nCalls < MaxLiveCalls
    /\ Login("a@b.co", "Str0ng!pw", FALSE, FALSE, FALSE, FALSE, FALSE, FALSE, FALSE)

ExitWorker ==
    \/ Start
    \/ Tick
    \/ WorkerPoll(FALSE)
    \/ WorkerShutdown(FALSE)
    \/ WorkerSend(FALSE)
    \/ WorkerUpdate(FALSE)

ExitNext ==
    \/ ExitLogin
    \/ MainRunning /\ ExitWorker
    \/ MainRunning /\ WaiterWait
    \/ MainRunning /\ WaiterGracefulStop
    \/ MainShutdown
    \/ ShutdownDeadline
    \/ MainSelect

ExitSpec == LiveInit /\ [][ExitNext]_vars

\* ------------------------------------------------------------------ claims
Range(q) == {q[i] : i \in 1..Len(q)}

\* refresh-token rows written by Login (a registration's row carries the id
\* of the user it created as token number)
LoginTokenRows == {rt \in refreshTokens : rt.userID # rt.token}

\* C1: for every outbox row the task-queue Enqueue succeeds at most once,
\* over any sequence of polls, failed status updates, drain passes and
\* restarts.
C1_EnqueuedAtMostOnce ==
    \A i \in 1..Len(enqueued) : enqueued[i] <= 1

\* C3: in every reachable state a login has both its RefreshToken row and
\* its OutboxEvent row, or neither.
C3_LoginRowsTogether ==
    \A k \in 1..nCalls :
        (\E rt \in LoginTokenRows : rt.token = k)
            <=> (\E i \in 1..Len(outbox) : outbox[i].id = k)

C5_ErrorPropagation ==
    (lastTx.variant # None /\ ~lastTx.beginFail /\ ~lastTx.fnPanic) =>
        IF lastTx.fnErr # None
        THEN /\ lastTx.err = lastTx.fnErr
             /\ lastTx.end \in {"rolledback", "rollbackfailed"}
             /\ lastTx.fnTx \cap users = {}
        ELSE IF lastTx.commitFail
        THEN /\ lastTx.err = CommitErr
             /\ lastTx.end = "commitfailed"
             /\ lastTx.fnTx \cap users = {}
        ELSE /\ lastTx.err = None
             /\ lastTx.end = "committed"
             /\ lastTx.fnTx \subseteq users

\* fn wrote a row and returned an error, and the rollback failed
C5_Witness ==
    /\ lastTx.variant \in TxVariants \ {"WithTransactionRecovering"}
    /\ ~lastTx.beginFail
    /\ lastTx.fnErr # None
    /\ lastTx.fnTx # {}
    /\ lastTx.rbFail
    /\ lastTx.err = "fn error"

\* C6: a panic raised inside fn, in WithTransaction and in every
\* isolation-level variant, has the transaction rolled back before it
\* propagates: no transaction is left open and the panic is not swallowed.
C6_PanicRollsBack ==
    /\ openTx = 0
    /\ (lastTx.variant # None /\ ~lastTx.beginFail /\ lastTx.fnPanic) =>
          /\ lastTx.panic
          /\ lastTx.end \in {"rolledback", "rollbackfailed"}

\* C7: every change of a row's status is pending to success or pending to
\* failed; no operation moves a row back to pending or changes the status
\* of a row that is already success or failed.
C7_StatusMonotonic ==
    [][\A i \in 1..Len(outbox) :
          outbox'[i].status # outbox[i].status =>
              /\ outbox[i].status = NotificationEventLogStatusPending
              /\ outbox'[i].status \in {NotificationEventLogStatusSuccess,
                                        NotificationEventLogStatusFailed}]_vars

\* C8: after one successful processing of a row its status is success,
\* FindPendingEvents never returns it again and no later poll or drain pass
\* enqueues a task for it.
C8_ProcessedStaysDone ==
    [][\A i \in processed' :
          /\ outbox'[i].status = NotificationEventLogStatusSuccess
          /\ i \notin Range(FindPendingEvents(outbox', LoginEventType, batchSize))
          /\ i \notin Range(batch')
          /\ i \in processed => enqueued'[i] = enqueued[i]]_vars

\* a later poll is sending a younger row while an older row is processed
C8_Witness ==
    /\ wpc = "update"
    /\ Head(batch) \notin processed
    /\ \E i \in processed : i < Head(batch)

\* C9: a Login that returns success has appended exactly one new row with
\* status pending, event name login and a payload with the user id; a Login
\* that fails on validation, unknown user or wrong password appends no row.
C9_LoginAppendsOneRow ==
    [][(nCalls' # nCalls /\ lastResp'.op = "Login") =>
          IF lastResp'.err = None
          THEN /\ Len(outbox') = Len(outbox) + 1
               /\ SubSeq(outbox', 1, Len(outbox)) = outbox
               /\ outbox'[Len(outbox')].status = NotificationEventLogStatusPending
               /\ outbox'[Len(outbox')].eventName = LoginEventType
               /\ outbox'[Len(outbox')].payload.userID = lastResp'.user
               /\ lastResp'.user # NilUUID
               /\ \E u \in users : u.id = lastResp'.user
          ELSE lastResp'.err \in {ErrEmailIsRequired, ErrUserNotFound,
                                  ErrInvalidCredentials}
                   => outbox' = outbox]_vars

\* a second successful Login has appended its row after the first one
C9_Witness ==
    /\ lastResp.op = "Login"
    /\ lastResp.err = None
    /\ Len(outbox) = 2
    /\ outbox[2].id = nCalls

\* C10: if appending the outbox row fails, Login returns that error and
\* returns no access token and no refresh token.
C10_OutboxFailureFailsLogin ==
    (/\ lastResp.op = "Login"
     /\ \E rt \in refreshTokens : rt.token = nCalls
     /\ ~\E i \in 1..Len(outbox) : outbox[i].id = nCalls) =>
        /\ lastResp.err = ErrCreateEventLog
        /\ lastResp.access = NoToken
        /\ lastResp.refresh = NoToken

\* the refresh token of the login is stored, the event row is not
C10_Witness ==
    /\ lastResp.op = "Login"
    /\ lastResp.err = ErrCreateEventLog
    /\ \E rt \in refreshTokens : rt.token = nCalls
    /\ ~\E i \in 1..Len(outbox) : outbox[i].id = nCalls

\* C2: every outbox row created by a successful Login eventually has its
\* task enqueued and its status set to success, provided the worker keeps
\* polling or is restarted and the store and the queue eventually accept
\* calls.
C2_EventuallyDelivered ==
    \A i \in 1..MaxLiveCalls :
        (Len(outbox) >= i) ~>
            (/\ Len(outbox) >= i
             /\ outbox[i].status = NotificationEventLogStatusSuccess
             /\ enqueued[i] >= 1)

\* two logins, both rows delivered
C2_Witness ==
    /\ Len(outbox) = 2
    /\ \A i \in 1..2 : /\ outbox[i].status = NotificationEventLogStatusSuccess
                       /\ enqueued[i] >= 1
                       /\ i \in processed

\* the worker is handling row i: processEvent(i) is the call in progress or
\* the next call of the loop
Handling(i) == wpc \in {"loop", "update"} /\ batch # <<>> /\ Head(batch) = i

C12_FailureDoesNotStopBatch ==
    [][(/\ \/ wpc = "loop" /\ batch # <<>> /\ ~CtxDone
           \/ wpc = "update"
        /\ <<wpc, batch>>' # <<wpc, batch>>) =>
          \/ wpc' = "update" /\ batch' = batch
          \/ wpc' = "loop" /\ batch' = Tail(batch)]_vars

\* the first row of the drain batch failed to decode, the second row of the
\* same batch was processed
C12_Witness ==
    /\ Len(outbox) >= 2
    /\ outbox[1].payload = MalformedPayload
    /\ outbox[1].createdAt <= outbox[2].createdAt
    /\ {1, 2} \subseteq attempted
    /\ outbox[1].status = NotificationEventLogStatusPending
    /\ 2 \in processed

\* C13: when the context of the batch is done as the loop is about to start
\* a row, the worker leaves the batch: no row is decoded, enqueued or
\* updated and no row of the batch is left to process.
C13_CancelStopsBatch ==
    [][(/\ wpc = "loop"
        /\ batch # <<>>
        /\ CtxDone
        /\ <<wpc, batch>>' # <<wpc, batch>>) =>
          /\ wpc' \in {"select", "exited"}
          /\ batch' = <<>>
          /\ outbox' = outbox
          /\ enqueued' = enqueued
          /\ attempted' = attempted]_vars

\* the grace timeout expired during the drain pass and the worker exited
\* without handling a row it had fetched
C13_Witness ==
    /\ wpc = "exited"
    /\ drainExpired
    /\ drainFetch = "ok"
    /\ Cardinality(drainPending) <= batchSize
    /\ attempted # {}
    /\ drainPending \ attempted # {}

\* C14: the worker begins a drain pass only from the select after a shutdown
\* signal, at most once; the pass runs under a context that is not done
\* although the caller's is, so the row at the head of its batch is handed
\* to processEvent; when the pass ends the goroutine has returned, and it
\* takes no step afterwards.
C14_OneDrainPass ==
    [][/\ drains' <= 1
       /\ drains' # drains =>
             /\ wpc = "select"
             /\ appCancelled \/ shutdownClosed
             /\ ~drainExpired'
             /\ phase' = "drain" \/ wpc' = "exited"
       /\ (/\ phase = "drain"
           /\ wpc = "loop"
           /\ batch # <<>>
           /\ ~drainExpired
           /\ <<wpc, batch>>' # <<wpc, batch>>) => Head(batch) \in attempted'
       /\ (phase = "drain" /\ phase' # "drain") => wpc' = "exited"
       /\ wpc = "exited" =>
             /\ wpc' = "exited"
             /\ UNCHANGED <<outbox, enqueued, batch, polled, drains>>]_vars

\* after cancellation the drain pass has processed a row and the goroutine
\* has returned
C14_Witness ==
    /\ appCancelled
    /\ wpc = "exited"
    /\ drains = 1
    /\ attempted \cap processed # {}

C16_WorkerReportsCompletion ==
    /\ (appCancelled \/ shutdownClosed) ~> (wpc = "exited" /\ wgDones = 1)
    /\ [](/\ wgDones <= 1
          /\ wgDones = 1 <=> wpc = "exited")

\* Stop without cancellation: the goroutine has drained, returned and
\* called wg.Done()
C16_Witness ==
    /\ shutdownClosed
    /\ ~appCancelled
    /\ wpc = "exited"
    /\ drains = 1
    /\ wgAdds = 1
    /\ wgDones = 1

\* C17: whatever the number of calls of Stop, before or after cancellation
\* and after the goroutine has returned, the channel is closed by the first
\* call only, no call panics, a further call changes nothing, and Stop can
\* always be called.
C17_StopIdempotent ==
    /\ [](/\ ~stopPanicked
          /\ shutdownClosed <=> stopCalls # "never"
          /\ shutdownOnce <=> shutdownClosed
          /\ ENABLED Stop)
    /\ [][(stopCalls # "never" /\ stopCalls' # stopCalls) =>
             UNCHANGED <<wpc, phase, batch, appCancelled, shutdownClosed,
                         shutdownOnce, stopPanicked, outbox, enqueued>>]_vars

\* Stop has been called again after cancellation and after the goroutine
\* returned
C17_Witness ==
    /\ stopCalls = "repeated"
    /\ appCancelled
    /\ wpc = "exited"
    /\ shutdownClosed
    /\ ~stopPanicked

\* C18: once main has begun the shutdown it returns; it returns through the
\* shutdownDone case only after wg.Wait() and GracefulStop() returned, and
\* through the deadline case only after the deadline expired, whatever the
\* worker and the server do.
C18_ShutdownBounded ==
    /\ (mainPc = "select") ~> (mainPc \in {"completed", "forced"})
    /\ [](/\ mainPc = "completed" => (waiterPc = "done" /\ serverStopped)
          /\ mainPc = "forced" => (shutdownCtxDone /\ serverStopped)
          /\ mainPc \in {"select", "completed", "forced"} => appCancelled)

\* the deadline expired while the worker was still in its drain pass and
\* wg.Wait() had not returned: main has returned
C18_Witness ==
    /\ mainPc = "forced"
    /\ waiterPc = "wg.Wait"
    /\ wpc \in {"loop", "update"}
    /\ phase = "drain"

\* C19: the goroutine polls before it first reaches the select, without
\* waiting for a tick; a poll from the select takes a tick out of ticker.C;
\* a batch is fetched only when no batch is in progress.
C19_PollFirstThenPerTick ==
    /\ [](wpc \in {"select", "loop", "update", "exited"} => polled)
    /\ [][/\ (wpc = "startup" /\ wpc' # wpc) =>
                /\ wpc' \in {"select", "loop"}
                /\ polled'
                /\ phase' = "poll"
                /\ UNCHANGED <<tickerC, drains>>
          /\ (wpc = "select" /\ wpc' = "loop" /\ phase' = "poll") =>
                (tickerC /\ ~tickerC')
          /\ (wpc' = "loop" /\ wpc \notin {"loop", "update"}) =>
                (wpc \in {"startup", "select"} /\ batch = <<>>)]_vars

\* the first poll has processed a row, the goroutine waits in the select
\* and a tick has arrived
C19_Witness ==
    /\ wpc = "select"
    /\ polled
    /\ tickerC
    /\ processed # {}
    /\ drains = 0

\* the rows of the event log a poll for login events can return
Matching(rows) ==
    {i \in 1..Len(rows) : /\ rows[i].eventName = LoginEventType
                          /\ rows[i].status = NotificationEventLogStatusPending}

\* C20: a fetched batch has at most batchSize rows, each pending and a login
\* event, in ascending created_at order, and no row left out is older than
\* a row of the batch; the worker handles the row at the head of the batch
\* and then drops it.
C20_OldestFirstBatch ==
    [][/\ (wpc \in {"startup", "select"} /\ wpc' = "loop") =>
             /\ Len(batch') <= batchSize
             /\ Range(batch') \subseteq Matching(outbox)
             /\ Cardinality(Range(batch')) = Len(batch')
             /\ \A k, l \in 1..Len(batch') :
                   k < l => outbox[batch'[k]].createdAt <= outbox[batch'[l]].createdAt
             /\ \A j \in Matching(outbox) \ Range(batch') :
                   /\ Len(batch') = batchSize
                   /\ \A k \in 1..Len(batch') :
                         outbox[batch'[k]].createdAt <= outbox[j].createdAt
       /\ (wpc \in {"loop", "update"} /\ batch' # batch) =>
             \/ batch' = Tail(batch)
             \/ batch' = <<>>
       /\ \A i \in 1..Len(outbox) :
             (wpc \in {"loop", "update"} /\
              <<outbox[i], enqueued[i]>> # <<outbox'[i], enqueued'[i]>>) =>
                  Head(batch) = i]_vars

\* the batch holds a row inserted later but created earlier before a row
\* inserted first, and leaves out a row that does not match
C20_Witness ==
    /\ wpc = "loop"
    /\ Len(batch) >= 2
    /\ batch[1] > batch[2]
    /\ outbox[batch[1]].createdAt < outbox[batch[2]].createdAt
    /\ \E i \in 1..Len(outbox) : i \notin Matching(outbox) /\ i \notin Range(batch)

\* C21: a token pair made by Register or Login with the configured
\* access-token duration carries expires-at = issued-at + the duration in
\* seconds, computed without overflow of the 64-bit product, and both tokens
\* verify right after issuance.
C21_ServiceTokensVerify ==
    jwt.op = "createTokenPair" =>
        /\ Seconds64(Mul64(jwt.duration, Second)) = jwt.duration
        /\ \A i \in 1..Len(jwt.tokens) :
              jwt.tokens[i].claims.expired_at =
                  Add64(Add64(jwt.tokens[i].claims.issued_at, Seconds64(jwt.duration)),
                        Int64(jwt.lag))
        /\ (/\ verified.op \in {"VerifyAccessToken", "VerifyRefreshToken"}
            /\ verified.at = jwt.at + jwt.lag) => verified.err = None

\* the clock reading at which the token in hand was handed out
IssuedAtClock == jwt.at + jwt.lag

\* the token the latest verification was given
VerifiedToken == jwt.tokens[verified.i]

C23_ExpiredAlways ==
    (/\ verified.op \in {"VerifyAccessToken", "VerifyRefreshToken"}
     /\ VerifiedToken.decodes
     /\ Less64(VerifiedToken.claims.expired_at, Int64(verified.at))) =>
        verified.err = token_ErrExpiredToken

\* C23 for the tokens whose signature verifies (a signing method of the HMAC
\* family and the maker's key): once the clock is past expires-at,
\* verification fails with the expired-token error whatever the claims are,
\* and Payload.Valid reports expiry before it looks at the id and the claims.
C23_ExpiredWhenAuthentic ==
    /\ (/\ verified.op \in {"VerifyAccessToken", "VerifyRefreshToken"}
        /\ VerifiedToken.decodes
        /\ VerifiedToken.header.alg = "HS256"
        /\ VerifiedToken.signature =
               HMAC(secretKey, VerifiedToken.header, VerifiedToken.claims)
        /\ Less64(VerifiedToken.claims.expired_at, Int64(verified.at))) =>
           verified.err = token_ErrExpiredToken
    /\ (/\ verified.op = "Valid"
        /\ Less64(verified.payload.ExpiredAt, Int64(verified.at))) =>
           verified.err = jwt_ErrTokenExpired

\* a token with the maker's signature, a nil id and an empty subject was
\* refused as expired
C23_Witness ==
    /\ jwt.op = "forged"
    /\ verified.op = "VerifyAccessToken"
    /\ VerifiedToken.signature =
           HMAC(secretKey, VerifiedToken.header, VerifiedToken.claims)
    /\ VerifiedToken.claims.id = NilUUID
    /\ VerifiedToken.claims.user_id = ""
    /\ Less64(VerifiedToken.claims.expired_at, Int64(verified.at))
    /\ verified.err = token_ErrExpiredToken

\* C24: IsValid tests, in this order, the identity (ids not nil), the token
\* (not empty), revocation and expiry, and returns the error of the first
\* test that fails: a revoked record fails with TokenRevoked whatever its
\* expiry, and an unrevoked record with its expiry in the future passes.
C24_ValidityOrder ==
    rtCall.op \in {"IsValid", "token.IsValid"} =>
        LET r == rtRecord
            domain == rtCall.op = "IsValid"
            identity == r.userID # NilUUID /\ (domain => r.id # NilUUID)
            expired == IF domain THEN r.expiresAt <= rtCall.at
                       ELSE rtCall.at > r.expiresAt
        IN  /\ ~identity =>
                  rtCall.err = IF domain THEN ErrInvalidToken ELSE ErrUserNotFound
            /\ (identity /\ r.token = NoToken) => rtCall.err = ErrInvalidToken
            /\ (identity /\ r.token # NoToken /\ r.isRevoked) =>
                  rtCall.err = ErrTokenRevoked
            /\ (identity /\ r.token # NoToken /\ ~r.isRevoked /\ expired) =>
                  rtCall.err = ErrTokenExpired
            /\ (identity /\ r.token # NoToken /\ ~r.isRevoked
                         /\ r.expiresAt > rtCall.at) => rtCall.err = None

\* a well-formed record that is both revoked and expired was checked
C24_Witness ==
    /\ rtCall.op = "IsValid"
    /\ rtRecord.id # NilUUID /\ rtRecord.userID # NilUUID /\ rtRecord.token # NoToken
    /\ rtRecord.isRevoked
    /\ rtRecord.expiresAt < rtCall.at
    /\ rtCall.err = ErrTokenRevoked

\* C26: NewRefreshToken fails with InvalidToken when the user id is nil or
\* the token is empty and with TokenExpired when the expiry (epoch
\* milliseconds) is not after the clock; a failing call returns no record and
\* storeRefreshToken's callback then writes nothing; any other call returns
\* the unrevoked record of its arguments.
C26_CreateRejects ==
    /\ rtCall.op = "NewRefreshToken" =>
          LET userID == rtCall.args[1]
              tokenHash == rtCall.args[2]
              expiresAt == rtCall.args[3]
          IN  /\ (userID = NilUUID \/ tokenHash = NoToken) =>
                     rtCall.err = ErrInvalidToken
              /\ (userID # NilUUID /\ tokenHash # NoToken /\ expiresAt <= rtCall.at) =>
                     rtCall.err = ErrTokenExpired
              /\ (userID # NilUUID /\ tokenHash # NoToken /\ expiresAt > rtCall.at) =>
                     /\ rtCall.err = None
                     /\ rtRecord.userID = userID
                     /\ rtRecord.token = tokenHash
                     /\ rtRecord.expiresAt = expiresAt
                     /\ ~rtRecord.isRevoked
              /\ rtCall.err # None => rtRecord = NoRecord
    /\ \A userID \in {NilUUID, 1}, tokenHash \in {NoToken, 7} :
          LET nrt == NewRefreshToken(userID, tokenHash, now + RefreshTokenDuration,
                                     tokenHash, <<now, now, now>>)
              fn == StoreRefreshTokenFn([id |-> userID], tokenHash, now, FALSE)
          IN  nrt.err # None =>
                  /\ fn.err = nrt.err
                  /\ fn.tx = NoWrites
                  /\ fn.direct = NoWrites

\* a call whose expiry equals the clock reading was refused
C26_Witness ==
    /\ rtCall.op = "NewRefreshToken"
    /\ rtCall.args[1] # NilUUID
    /\ rtCall.args[2] # NoToken
    /\ rtCall.args[3] = rtCall.at
    /\ rtCall.err = ErrTokenExpired
    /\ rtRecord = NoRecord

\* C27: every record NewRefreshToken returns has ExpiresAt above CreatedAt,
\* however far the clock moves between the expiry check and the reading
\* taken for CreatedAt.
C27_ExpiryAfterCreation ==
    (rtCall.op = "NewRefreshToken" /\ rtCall.err = None) =>
        rtRecord.expiresAt > rtRecord.createdAt

\* C25: a stored refresh-token record that is revoked stays stored and
\* revoked across every step, and a RefreshToken call with its token never
\* succeeds: it fails with TokenRevoked whenever the record is read.
C25_RevokedIsTerminal ==
    [][/\ \A r \in refreshTokens : r.isRevoked => r \in refreshTokens'
       /\ \A token \in ReqTokens, fault \in {{}, {"get"}, {"user"}, {"token"}} :
             (/\ \E r \in refreshTokens : r.token = token /\ r.isRevoked
              /\ RefreshToken(token, "get" \in fault, "user" \in fault,
                              "token" \in fault)) =>
                 /\ lastResp'.err # None
                 /\ lastResp'.access = NoToken
                 /\ "get" \notin fault => lastResp'.err = ErrTokenRevoked]_vars

\* the revoked token was presented after its expiry and refused as revoked
C25_Witness ==
    /\ lastResp.op = "RefreshToken"
    /\ lastResp.err = ErrTokenRevoked
    /\ \E r \in refreshTokens : r.isRevoked /\ r.expiresAt < now
    /\ nCalls >= 2

\* C28: a RefreshToken call leaves users, refresh tokens and event rows as
\* they are and returns an access token only; with storage and codec
\* working it succeeds exactly when the token's record is stored, not
\* revoked and not past its expiry and its user exists, so the same token
\* serves call after call until it expires or is revoked.
C28_RefreshLeavesStorage ==
    [][(nCalls' # nCalls /\ lastResp'.op = "RefreshToken") =>
          /\ users' = users
          /\ refreshTokens' = refreshTokens
          /\ outbox' = outbox
          /\ lastResp'.refresh = NoToken
          /\ lastResp'.err = None => lastResp'.access # NoToken
          /\ \A token \in ReqTokens :
                RefreshToken(token, FALSE, FALSE, FALSE) =>
                    (lastResp'.err = None <=>
                        \E r \in refreshTokens' :
                            /\ r.token = token
                            /\ ~r.isRevoked
                            /\ r.expiresAt >= now
                            /\ \E u \in users' : u.id = r.userID)]_vars

\* a call with the stored token succeeded after earlier calls, and the
\* stored records are the ones the service started with
C28_Witness ==
    /\ lastResp.op = "RefreshToken"
    /\ lastResp.err = None
    /\ lastResp.access = nCalls
    /\ nCalls >= 2
    /\ refreshTokens = SeedTokens

\* C29: a Login that succeeds adds exactly one refresh-token record, the
\* unrevoked record of the returned token for the user who logged in, and
\* leaves every record that was stored before as it was.
C29_LoginAddsOneToken ==
    [][(nCalls' # nCalls /\ lastResp'.op = "Login" /\ lastResp'.err = None) =>
          /\ refreshTokens \subseteq refreshTokens'
          /\ Cardinality(refreshTokens' \ refreshTokens) = 1
          /\ \A r \in refreshTokens' \ refreshTokens :
                /\ r.userID = lastResp'.user
                /\ r.token = lastResp'.refresh
                /\ ~r.isRevoked
                /\ r.expiresAt > now
          /\ users' = users]_vars

\* after a second login the user holds the unrevoked, unexpired tokens of
\* both logins and the one stored before
C29_Witness ==
    /\ lastResp.op = "Login"
    /\ lastResp.err = None
    /\ Cardinality({r \in refreshTokens : /\ r.userID = lastResp.user
                                          /\ r.token \in 1..MaxCalls
                                          /\ ~r.isRevoked
                                          /\ r.expiresAt > now}) = 2
    /\ \E r \in SeedTokens : r \in refreshTokens /\ ~r.isRevoked /\ r.expiresAt >= now

\* the errors that reject a request as invalid input
InvalidInputErrs ==
    {ErrEmailOrPhoneRequired, ErrInvalidPassword, ErrInvalidEmail,
     ErrEmailIsRequired, ErrTokenIsRequired}

C31_InFlightEnqueueMarked ==
    [][(phase = "poll" /\ appCancelled /\ WorkerUpdate(FALSE)) =>
          /\ outbox'[Head(batch)].status = NotificationEventLogStatusSuccess
          /\ Head(batch) \in processed']_vars

\* C32: once wg.Wait() has returned in the shutdown sequence, the worker
\* goroutine has run its drain pass and returned, whenever the shutdown
\* began.
C32_WaitCoversWorker ==
    waiterPc \in {"GracefulStop", "done"} => (wpc = "exited" /\ drains >= 1)

\* C33: once the context is cancelled or Stop has closed shutdownChan, no
\* poll taken from the ticker case of the select goes on to process rows.
C33_NoPollAfterSignal ==
    [][((appCancelled \/ shutdownClosed) /\ wpc = "select" /\ PollStep) =>
          wpc' # "loop"]_vars

\* C34: with storage and codec working, RefreshToken succeeds on a stored
\* record exactly when IsValid accepts the record at that clock reading,
\* and fails with IsValid's error otherwise.
C34_RefreshAgreesWithIsValid ==
    [][\A r \in refreshTokens :
          (/\ nCalls' # nCalls
           /\ \E u \in users : u.id = r.userID
           /\ RefreshToken(r.token, FALSE, FALSE, FALSE)) =>
              lastResp'.err = IsValid(r, now)]_vars

\* row i is a login row whose payload decodes
Deliverable(i) ==
    /\ i <= Len(outbox)
    /\ outbox[i].eventName = LoginEventType
    /\ Unmarshal(outbox[i].payload).err = None

\* the pending login rows older than row i whose payload does not decode
FailingOlder(i) ==
    IF i > Len(outbox) THEN {}
    ELSE {j \in 1..Len(outbox) :
             /\ outbox[j].eventName = LoginEventType
             /\ outbox[j].status = NotificationEventLogStatusPending
             /\ outbox[j].createdAt < outbox[i].createdAt
             /\ Unmarshal(outbox[j].payload).err # None}

\* row i was enqueued and marked success
Delivered(i) ==
    /\ i <= Len(outbox)
    /\ outbox[i].status = NotificationEventLogStatusSuccess
    /\ enqueued[i] >= 1

\* row i was never fetched: it is in no batch, no task was made from it
\* and it is pending
Unfetched(i) ==
    /\ i <= Len(outbox)
    /\ i \notin Range(batch)
    /\ enqueued[i] = 0
    /\ outbox[i].status = NotificationEventLogStatusPending

\* C35: a login row whose payload decodes is eventually enqueued and marked
\* success when fewer than batchSize older pending login rows fail at every
\* attempt; with batchSize or more such rows it is never fetched, at any
\* poll.
C35_DeliveredUnlessCrowdedOut ==
    \A i \in 1..MaxRows :
        /\ []((Deliverable(i) /\ Cardinality(FailingOlder(i)) < batchSize)
                  => <>Delivered(i))
        /\ []((Deliverable(i) /\ Cardinality(FailingOlder(i)) >= batchSize)
                  => Unfetched(i))

\* a row was delivered in the batch in which an older row had failed
C35_Witness ==
    \E i \in 1..Len(outbox) :
        /\ Deliverable(i)
        /\ FailingOlder(i) # {}
        /\ Cardinality(FailingOlder(i)) < batchSize
        /\ outbox[i].status = NotificationEventLogStatusSuccess
        /\ enqueued[i] >= 1
        /\ i \in processed

\* C36: with two instances polling the same store and every call
\* succeeding, a task is made from a row only when none was made from it
\* before.
C36_PeersEnqueueOnce ==
    [][\A i \in 1..Len(enqueued) :
          enqueued'[i] > enqueued[i] => enqueued[i] = 0]_vars

\* C37: when main returns through shutdownDone after the worker ran its
\* drain pass and returned, with a healthy store and queue and at most
\* batchSize rows, every login that succeeded has its row marked success
\* and its task in the queue.
C37_NoPendingAtExit ==
    (/\ mainPc = "completed"
     /\ wpc = "exited"
     /\ drains >= 1
     /\ Len(outbox) <= batchSize) =>
        \A i \in 1..Len(outbox) :
            /\ outbox[i].status = NotificationEventLogStatusSuccess
            /\ enqueued[i] >= 1

====
